---- MODULE Spec2Model ----
(***************************************************************************)
(* FastSlides desktop: project-relative asset resolution and the embedded  *)
(* live preview (fastslides-desktop/app/page.tsx).                         *)
(*                                                                         *)
(* Strings are sequences of one-character strings, so that trimming,       *)
(* prefix tests, splitting and joining are computed as the code computes   *)
(* them.                                                                   *)
(***************************************************************************)
EXTENDS Integers, Sequences, FiniteSets, Bags, TLC

VARIABLES
  sanRaw,       \* sanitizer harness: the raw reference under test
  sanOut,       \* sanitizer harness: normalizeProjectRelativeAsset(sanRaw)
  sanAgain,     \* sanitizer harness: normalizeProjectRelativeAsset(sanOut)
  isTauri,      \* isTauriRuntime(): fixed for the life of the window
  cache,        \* projectAssetDataUrlCache: cache key -> payload
  pending,      \* backend calls and compiles in flight (a bag)
  lastResolve,  \* the latest event of a resolveProjectAssetSource promise
  resolved,     \* (projectPath, relative path) pairs some call has loaded
  projects,           \* Home: appState?.projects || []
  selectedPath,       \* Home: selectedPath
  storedPath,         \* localStorage[SELECTED_STATE_KEY]
  detail,             \* Home: selectedProjectDetail
  presenterMode,      \* Home: presenterMode
  activeSlideIndex,   \* Home: activeSlideIndex
  embeddedSlideCount, \* Home: embeddedSlideCount
  slideOutline,       \* Home: slideOutline
  expandedAsset,      \* Home: expandedAsset (its src, or Null)
  projectCss,         \* Home: projectCss
  compiledDeck,       \* EmbeddedDeckPreview: CompiledDeck (the source it was compiled from)
  error,              \* EmbeddedDeckPreview: error
  resolvedSrc,        \* ProjectAssetImage: resolvedSrc
  scrollPos,          \* preview surface: viewport centre, in half slide heights
  rafQueue,           \* window.requestAnimationFrame callbacks not yet run
  slideDom,           \* EmbeddedDeckPreview: the .slide elements' data-active and
                      \* aria-hidden, previousActiveSlideRef, the root's single-slide class
  slideTokens         \* Home: slideTokens

sanVars == <<sanRaw, sanOut, sanAgain>>

resVars == <<isTauri, cache, pending, lastResolve, resolved>>

uiVars == <<projects, selectedPath, storedPath, detail, presenterMode, activeSlideIndex,
            embeddedSlideCount, slideOutline, expandedAsset, projectCss, compiledDeck,
            error, resolvedSrc, scrollPos, rafQueue, slideDom, slideTokens>>

vars == <<sanRaw, sanOut, sanAgain, isTauri, cache, pending, lastResolve, resolved,
          projects, selectedPath, storedPath, detail, presenterMode, activeSlideIndex,
          embeddedSlideCount, slideOutline, expandedAsset, projectCss, compiledDeck,
          error, resolvedSrc, scrollPos, rafQueue, slideDom, slideTokens>>

(***************************************************************************)
(* Bounds                                                                  *)
(***************************************************************************)
MaxSegs == 3

MaxPending == 2

\* animation-frame callbacks queued by leaving presenter mode
MaxFrames == 1

\* slides per document
MaxSlides == 3

(***************************************************************************)
(* String helpers (String.prototype methods used by the sanitizer)         *)
(***************************************************************************)

\* the value standing for JavaScript null / "not yet computed"
Null == <<"<null>">>

Unset == <<"<unset>">>

UpperChars == <<"A","B","C","D","E","F","G","H","I","J","K","L","M","N","O","P","Q","R","S","T","U","V","W","X","Y","Z">>

LowerChars == <<"a","b","c","d","e","f","g","h","i","j","k","l","m","n","o","p","q","r","s","t","u","v","w","x","y","z">>

toLowerCase(s) ==
  LET LowerMap == [c \in {UpperChars[i] : i \in 1..26} |->
                     LowerChars[CHOOSE i \in 1..26 : UpperChars[i] = c]]
      LowerChar(c) == IF c \in DOMAIN LowerMap THEN LowerMap[c] ELSE c
  IN [i \in 1..Len(s) |-> LowerChar(s[i])]

IsSpace(c) == c \in {" ", "\n", "\t"}

RECURSIVE TrimStart(_)
TrimStart(s) ==
  IF s # <<>> /\ IsSpace(Head(s)) THEN TrimStart(Tail(s)) ELSE s

RECURSIVE TrimEnd(_)
TrimEnd(s) ==
  IF s # <<>> /\ IsSpace(s[Len(s)]) THEN TrimEnd(SubSeq(s, 1, Len(s) - 1)) ELSE s

trim(s) == TrimEnd(TrimStart(s))

startsWith(s, p) == Len(s) >= Len(p) /\ SubSeq(s, 1, Len(p)) = p

\* s.slice(n): the string without its first n characters
slice(s, n) == SubSeq(s, n + 1, Len(s))

\* s.replace(/\\/g, "/")
ReplaceBackslashes(s) == [i \in 1..Len(s) |-> IF s[i] = "\\" THEN "/" ELSE s[i]]

\* s.split("/"): always at least one (possibly empty) part
RECURSIVE SplitFrom(_, _, _)
SplitFrom(s, i, cur) ==
  IF i > Len(s) THEN <<cur>>
  ELSE IF s[i] = "/" THEN <<cur>> \o SplitFrom(s, i + 1, <<>>)
  ELSE SplitFrom(s, i + 1, Append(cur, s[i]))

split(s) == SplitFrom(s, 1, <<>>)

\* parts.join("/")
RECURSIVE join(_)
join(parts) ==
  IF parts = <<>> THEN <<>>
  ELSE IF Len(parts) = 1 THEN parts[1]
  ELSE parts[1] \o <<"/">> \o join(Tail(parts))

(***************************************************************************)
(* Path sanitizer                                                          *)
(***************************************************************************)

PROJECT_ROOT_ABSOLUTE_ASSET_PREFIXES ==
  << <<"/","a","s","s","e","t","s","/">>,
     <<"/","i","m","a","g","e","s","/">>,
     <<"/","m","e","d","i","a","/">>,
     <<"/","d","a","t","a","/">> >>

ExternalPrefixes ==
  { <<"h","t","t","p",":","/","/">>,
    <<"h","t","t","p","s",":","/","/">>,
    <<"d","a","t","a",":">>,
    <<"b","l","o","b",":">>,
    <<"m","a","i","l","t","o",":">>,
    <<"t","e","l",":">> }

isExternalAssetPath(value) ==
  LET lower == toLowerCase(value)
  IN \/ startsWith(value, <<"/","/">>)
     \/ \E p \in ExternalPrefixes : startsWith(lower, p)

\* raw.match(/^([^?#]*)(.*)$/): pathOnly is the longest prefix free of ? and #
RECURSIVE PathOnly(_)
PathOnly(s) ==
  IF s = <<>> \/ Head(s) \in {"?", "#"} THEN <<>>
  ELSE <<Head(s)>> \o PathOnly(Tail(s))

splitAssetPathAndSuffix(raw) ==
  [pathOnly |-> PathOnly(raw), suffix |-> slice(raw, Len(PathOnly(raw)))]

\* mutant: the root test is dropped, every absolute path is taken as project-relative
SupportedRootRelative_Any(relative) == TRUE

\* PROJECT_ROOT_ABSOLUTE_ASSET_PREFIXES.some(prefix =>
\*   relative === prefix.slice(0, -1) || relative.startsWith(prefix))
SupportedRootRelative(relative) ==
  \E k \in 1..Len(PROJECT_ROOT_ABSOLUTE_ASSET_PREFIXES) :
    LET prefix == PROJECT_ROOT_ABSOLUTE_ASSET_PREFIXES[k] IN
      \/ relative = SubSeq(prefix, 1, Len(prefix) - 1)
      \/ startsWith(relative, prefix)

\* mutant: a ".." with nothing to pop is skipped instead of rejecting the input
RECURSIVE NormalizeParts_SkipEscape(_, _)
NormalizeParts_SkipEscape(parts, normalizedParts) ==
  IF parts = <<>> THEN normalizedParts
  ELSE LET part == Head(parts) IN
    IF part = <<>> \/ part = <<".">>
      THEN NormalizeParts_SkipEscape(Tail(parts), normalizedParts)
    ELSE IF part = <<".", ".">>
      THEN IF Len(normalizedParts) = 0
             THEN NormalizeParts_SkipEscape(Tail(parts), normalizedParts)
             ELSE NormalizeParts_SkipEscape(Tail(parts),
                    SubSeq(normalizedParts, 1, Len(normalizedParts) - 1))
    ELSE NormalizeParts_SkipEscape(Tail(parts), Append(normalizedParts, part))

\* the for-loop over relative.split("/"); Null when a ".." has nothing to pop
RECURSIVE NormalizeParts(_, _)
NormalizeParts(parts, normalizedParts) ==
  IF parts = <<>> THEN normalizedParts
  ELSE LET part == Head(parts) IN
    IF part = <<>> \/ part = <<".">>
      THEN NormalizeParts(Tail(parts), normalizedParts)
    ELSE IF part = <<".", ".">>
      THEN IF Len(normalizedParts) = 0
             THEN Null
             ELSE NormalizeParts(Tail(parts),
                    SubSeq(normalizedParts, 1, Len(normalizedParts) - 1))
    ELSE NormalizeParts(Tail(parts), Append(normalizedParts, part))

\* the path after backslash normalization, before the root test
RelativeOf(raw) == ReplaceBackslashes(splitAssetPathAndSuffix(trim(raw)).pathOnly)

normalizeProjectRelativeAsset(raw) ==
  LET trimmed == trim(raw)
      pathOnly == splitAssetPathAndSuffix(trimmed).pathOnly
      relative0 == ReplaceBackslashes(pathOnly)
      relative == IF startsWith(relative0, <<"/">>) THEN slice(relative0, 1) ELSE relative0
      normalizedParts == NormalizeParts(split(relative), <<>>)
  IN
    IF trimmed = <<>> \/ startsWith(trimmed, <<"#">>) \/ isExternalAssetPath(trimmed)
      THEN Null
    ELSE IF pathOnly = <<>> THEN Null
    ELSE IF startsWith(relative0, <<"/">>) /\ ~SupportedRootRelative(relative0) THEN Null
    ELSE IF normalizedParts = Null THEN Null
    ELSE IF Len(normalizedParts) = 0 THEN Null
    ELSE join(normalizedParts)

(***************************************************************************)
(* Raw asset references fed to the sanitizer: an optional lead, up to      *)
(* MaxSegs segments joined by one separator, an optional suffix.           *)
(***************************************************************************)

RECURSIVE JoinWith(_, _)
JoinWith(parts, sep) ==
  IF Len(parts) = 1 THEN parts[1]
  ELSE parts[1] \o sep \o JoinWith(Tail(parts), sep)

RawInputs ==
  LET RawLeads == { <<>>, <<"/">>, <<"#">>, <<" ">> }
      RawSeparators == { <<"/">>, <<"\\">> }
      RawSuffixes == { <<>>, <<"?","v">> }
      RawSegments ==
        { <<>>, <<".">>, <<".",".">>, <<"a">>, <<" ","a">>,
          <<"d","a","t","a">>, <<"d","a","t","a",":">>,
          <<"i","m","a","g","e","s">>, <<"H","t","t","p",":">> }
  IN { lead \o JoinWith(segs, sep) \o suffix :
         lead \in RawLeads,
         segs \in UNION { [1..n -> RawSegments] : n \in 1..MaxSegs },
         sep \in RawSeparators,
         suffix \in RawSuffixes }

(***************************************************************************)
(* Asset resolver: resolveProjectAssetSource and its process-wide cache    *)
(***************************************************************************)

NoResolve == [kind |-> "none", projectPath |-> <<>>, rawSrc |-> <<>>, value |-> <<>>]

ResIdle ==
  /\ isTauri = TRUE
  /\ cache = <<>>
  /\ pending = EmptyBag
  /\ lastResolve = NoResolve
  /\ resolved = {}

SanIdle ==
  /\ sanRaw = <<>>
  /\ sanOut = Unset
  /\ sanAgain = Unset

(***************************************************************************)
(* Slide tokens and the project stylesheet: two of the 28 tokens           *)
(***************************************************************************)

TOKEN_TO_VAR ==
  << [key |-> "slideBg",
      varName |-> <<"-","-","s","l","i","d","e","-","b","g">>],
     [key |-> "slideMetaSize",
      varName |-> <<"-","-","s","l","i","d","e","-","m","e","t","a","-","s","i","z","e">>] >>

DEFAULT_TOKENS ==
  [slideBg |-> <<"#","0","e","0","d","0","a">>,
   slideMetaSize |-> <<"0",".","7","8","r","e","m">>]

\* `:root {\n${lines.join("\n")}\n}\n`, a line being `  ${varName}: ${value};`
tokensToCss(tokens) ==
  LET line(i) == <<" ", " ">> \o TOKEN_TO_VAR[i].varName \o <<":", " ">>
                   \o tokens[TOKEN_TO_VAR[i].key] \o <<";">>
  IN <<":","r","o","o","t"," ","{","\n">>
       \o JoinWith([i \in 1..Len(TOKEN_TO_VAR) |-> line(i)], <<"\n">>)
       \o <<"\n", "}", "\n">>

\* one attempt of /--([\w-]+)\s*:\s*(.+?)\s*;/ at position i of css: the name
\* is the longest run of [\w-] (a shorter one is followed by a name character,
\* not by \s or ":"); after the colon \s* is greedy and gives back, (.+?) is
\* the shortest run without a line break that \s*; can follow
ReMatchAt(css, i) ==
  LET n == Len(css)
      IsNameChar(c) ==
        \/ c \in {"-", "_", "0", "1", "2", "3", "4", "5", "6", "7", "8", "9"}
        \/ \E k \in 1..26 : c = LowerChars[k] \/ c = UpperChars[k]
      SpaceRun(p) == CHOOSE m \in 0..(n + 1 - p) :
                       /\ \A k \in 0..(m - 1) : IsSpace(css[p + k])
                       /\ (p + m > n \/ ~IsSpace(css[p + m]))
      nameRun == CHOOSE m \in 0..(n - i - 1) :
                   /\ \A k \in 1..m : IsNameChar(css[i + 1 + k])
                   /\ (i + 1 + m = n \/ ~IsNameChar(css[i + 2 + m]))
      nameEnd == i + 1 + nameRun
      colon == nameEnd + 1 + SpaceRun(nameEnd + 1)
      \* the ";" closing a value that ends right before position q, or 0
      Semicolon(q) == LET e == q + SpaceRun(q)
                      IN IF e <= n /\ css[e] = ";" THEN e ELSE 0
      cands == { x \in (0..SpaceRun(colon + 1)) \X (1..(n - colon)) :
                   /\ colon + x[1] + x[2] <= n
                   /\ \A k \in 1..x[2] : css[colon + x[1] + k] # "\n"
                   /\ Semicolon(colon + x[1] + x[2] + 1) # 0 }
      best == CHOOSE x \in cands :
                \A y \in cands : x[1] > y[1] \/ (x[1] = y[1] /\ x[2] <= y[2])
      miss == [ok |-> FALSE, varName |-> <<>>, value |-> <<>>, end |-> 0]
  IN IF ~(i + 2 <= n /\ css[i] = "-" /\ css[i + 1] = "-") THEN miss
     ELSE IF nameRun = 0 \/ colon > n THEN miss
     ELSE IF css[colon] # ":" \/ cands = {} THEN miss
     ELSE [ok |-> TRUE,
           varName |-> SubSeq(css, i, nameEnd),
           value |-> SubSeq(css, colon + best[1] + 1, colon + best[1] + best[2]),
           end |-> Semicolon(colon + best[1] + best[2] + 1)]

\* while ((m = re.exec(css)) !== null): the leftmost match at or after pos,
\* then on from its end; a mapped variable sets its token
RECURSIVE ParseFrom(_, _, _)
ParseFrom(css, pos, result) ==
  LET hits == {i \in pos..Len(css) : ReMatchAt(css, i).ok}
  IN IF hits = {} THEN result
     ELSE LET m == ReMatchAt(css, CHOOSE i \in hits : \A j \in hits : i <= j)
              keys == {TOKEN_TO_VAR[k].key : k \in {k \in 1..Len(TOKEN_TO_VAR) :
                                                     TOKEN_TO_VAR[k].varName = m.varName}}
          IN ParseFrom(css, m.end + 1,
               [key \in DOMAIN result \cup keys |->
                  IF key \in keys THEN m.value ELSE result[key]])

\* the Partial<SlideTokens> found in css: a function on the tokens it sets
parseCssToTokens(css) == ParseFrom(css, 1, <<>>)

\* { ...DEFAULT_TOKENS, ...parseCssToTokens(css) }
TokensOfCss(css) ==
  LET parsed == parseCssToTokens(css)
  IN [key \in DOMAIN DEFAULT_TOKENS |->
        IF key \in DOMAIN parsed THEN parsed[key] ELSE DEFAULT_TOKENS[key]]

\* expandedAsset when no asset is expanded (null)
NoAsset == [kind |-> "none", src |-> <<>>]

\* the slides as the slide-count effect leaves them: none active, none
\* hidden, previousActiveSlideRef -1, the root without the single-slide class
FreshDom(n) ==
  [slides |-> [i \in 1..n |-> [active |-> FALSE, hidden |-> FALSE]],
   previous |-> -1, single |-> FALSE]

NoDetail == [page_mdx |-> Null, slide_count |-> 0]

\* the window before page.tsx is mounted
UiIdle ==
  /\ projects = <<>>
  /\ selectedPath = <<>>
  /\ storedPath = <<>>
  /\ detail = NoDetail
  /\ presenterMode = FALSE
  /\ activeSlideIndex = 0
  /\ embeddedSlideCount = 0
  /\ slideOutline = <<>>
  /\ expandedAsset = NoAsset
  /\ projectCss = <<>>
  /\ compiledDeck = Null
  /\ error = ""
  /\ resolvedSrc = <<>>
  /\ scrollPos = 0
  /\ rafQueue = <<>>
  /\ slideDom = FreshDom(0)
  /\ slideTokens = DEFAULT_TOKENS

\* `${projectPath}::${normalizedRelative}`
CacheKey(projectPath, normalizedRelative) ==
  projectPath \o <<":", ":">> \o normalizedRelative

\* projectAssetDataUrlCache.get(cacheKey): undefined is the empty (falsy) value
CacheGet(c, cacheKey) ==
  IF cacheKey \in DOMAIN c THEN c[cacheKey] ELSE <<>>

\* mutant: storing an entry evicts the others
CacheSet_Evict(c, cacheKey, nextSource) ==
  [k \in {cacheKey} |-> nextSource]

\* projectAssetDataUrlCache.set(cacheKey, nextSource)
CacheSet(c, cacheKey, nextSource) ==
  [k \in DOMAIN c \cup {cacheKey} |-> IF k = cacheKey THEN nextSource ELSE c[k]]

\* what resolve_project_asset_data_url answers for a readable file: a data URI
BackendPayloads ==
  { <<"d","a","t","a",":","1">>, <<"d","a","t","a",":","2">> }

\* mutant: the cache is not consulted, every resolvable reference is loaded
ResolveBegin_NoCache(tauri, c, projectPath, rawSrc) ==
  LET normalizedRelative == normalizeProjectRelativeAsset(rawSrc)
  IN IF normalizedRelative = Null \/ projectPath = <<>> \/ ~tauri
       THEN [kind |-> "return", value |-> rawSrc, cacheKey |-> <<>>]
       ELSE [kind |-> "await", value |-> <<>>,
             cacheKey |-> CacheKey(projectPath, normalizedRelative)]

\* mutant: an unresolvable reference with a project open is sent to the backend
ResolveBegin_NoPassThrough(tauri, c, projectPath, rawSrc) ==
  LET normalizedRelative == normalizeProjectRelativeAsset(rawSrc)
      cacheKey == CacheKey(projectPath,
                    IF normalizedRelative = Null THEN <<>> ELSE normalizedRelative)
  IN IF projectPath = <<>> \/ ~tauri
       THEN [kind |-> "return", value |-> rawSrc, cacheKey |-> <<>>]
     ELSE IF CacheGet(c, cacheKey) # <<>>
       THEN [kind |-> "return", value |-> CacheGet(c, cacheKey), cacheKey |-> cacheKey]
     ELSE [kind |-> "await", value |-> <<>>, cacheKey |-> cacheKey]

\* resolveProjectAssetSource up to its first await: either the promise
\* resolves at once ("return") or a backend load is issued ("await")
ResolveBegin(tauri, c, projectPath, rawSrc) ==
  LET normalizedRelative == normalizeProjectRelativeAsset(rawSrc)
      cacheKey == CacheKey(projectPath,
                    IF normalizedRelative = Null THEN <<>> ELSE normalizedRelative)
  IN IF normalizedRelative = Null \/ projectPath = <<>> \/ ~tauri
       THEN [kind |-> "return", value |-> rawSrc, cacheKey |-> <<>>]
     ELSE IF CacheGet(c, cacheKey) # <<>>
       THEN [kind |-> "return", value |-> CacheGet(c, cacheKey), cacheKey |-> cacheKey]
     ELSE [kind |-> "await", value |-> <<>>, cacheKey |-> cacheKey]

\* a backend call in flight
ResolveOp(caller, projectPath, rawSrc, cacheKey) ==
  [kind |-> "resolve_project_asset_data_url", caller |-> caller,
   path |-> projectPath, src |-> rawSrc, cacheKey |-> cacheKey, cancelled |-> FALSE]

\* one more call in flight / a call in flight has settled
Issue(bag, op) == bag (+) SetToBag({op})

Settle(bag, op) == bag (-) SetToBag({op})

InFlight(bag) == BagCardinality(bag)

ProjectPathA == <<"/", "A">>

ProjectPathB == <<"/", "B">>

\* raw references handed to the resolver
ResolveRaws ==
  { <<>>, <<" ">>, <<"#", "a">>, <<"/", "/", "a">>,
    <<"H","t","t","p",":","/","/","a">>, <<"h","t","t","p","s",":","/","/","a">>,
    <<"D","a","t","a",":","a">>, <<"b","l","o","b",":","a">>,
    <<"m","a","i","l","t","o",":","a">>, <<" ", "t","e","l",":","1">>,
    <<"/","e","t","c">>, <<"a">>, <<".","/","a">> }

(***************************************************************************)
(* Resolver harness: calls of resolveProjectAssetSource with any project   *)
(* path and raw reference, in either runtime                               *)
(***************************************************************************)

ResInit ==
  /\ isTauri \in BOOLEAN
  /\ cache = <<>>
  /\ pending = EmptyBag
  /\ lastResolve = NoResolve
  /\ resolved = {}
  /\ SanIdle
  /\ UiIdle

\* a caller invokes resolveProjectAssetSource(projectPath, rawSrc)
ResolveCall(projectPath, rawSrc) ==
  LET begin == ResolveBegin(isTauri, cache, projectPath, rawSrc)
  IN /\ begin.kind = "await" => InFlight(pending) < MaxPending
     /\ pending' = IF begin.kind = "await"
                      THEN Issue(pending, ResolveOp("harness", projectPath, rawSrc, begin.cacheKey))
                      ELSE pending
     /\ lastResolve' = [kind |-> begin.kind, projectPath |-> projectPath,
                         rawSrc |-> rawSrc, value |-> begin.value]
     /\ UNCHANGED <<isTauri, cache, resolved>>
     /\ UNCHANGED sanVars
     /\ UNCHANGED uiVars

\* the backend answers a load with a payload: cache.set, then the promise resolves
HarnessLoadSucceeds(op, nextSource) ==
  /\ op \in BagToSet(pending)
  /\ op.kind = "resolve_project_asset_data_url"
  /\ op.caller = "harness"
  /\ cache' = CacheSet(cache, op.cacheKey, nextSource)
  /\ pending' = Settle(pending, op)
  /\ lastResolve' = [kind |-> "resolve", projectPath |-> op.path,
                      rawSrc |-> op.src, value |-> nextSource]
  /\ resolved' = resolved \cup { <<op.path, normalizeProjectRelativeAsset(op.src)>> }
  /\ UNCHANGED isTauri
  /\ UNCHANGED sanVars
  /\ UNCHANGED uiVars

\* mutant: the failure is swallowed and the promise resolves to the raw reference
AwaitThrows_Swallowed(op) ==
  [kind |-> "resolve", projectPath |-> op.path, rawSrc |-> op.src, value |-> op.src]

\* the awaited call throws outside any try block: the async function's promise rejects
AwaitThrows(op) ==
  [kind |-> "reject", projectPath |-> op.path, rawSrc |-> op.src, value |-> <<>>]

\* the backend load fails: nothing is cached, the promise settles as AwaitThrows says
HarnessLoadFails(op) ==
  /\ op \in BagToSet(pending)
  /\ op.kind = "resolve_project_asset_data_url"
  /\ op.caller = "harness"
  /\ pending' = Settle(pending, op)
  /\ lastResolve' = AwaitThrows(op)
  /\ UNCHANGED <<isTauri, cache, resolved>>
  /\ UNCHANGED sanVars
  /\ UNCHANGED uiVars

ResNext ==
  \/ \E projectPath \in {<<>>, ProjectPathA, ProjectPathB}, rawSrc \in ResolveRaws :
        ResolveCall(projectPath, rawSrc)
  \/ \E op \in BagToSet(pending), nextSource \in BackendPayloads :
        HarnessLoadSucceeds(op, nextSource)
  \/ \E op \in BagToSet(pending) : HarnessLoadFails(op)

SpecResolve == ResInit /\ [][ResNext]_vars

(***************************************************************************)
(* Sanitizer harness: apply the sanitizer to an input, then to its result  *)
(***************************************************************************)

SanInit ==
  /\ sanRaw \in RawInputs
  /\ sanOut = Unset
  /\ sanAgain = Unset
  /\ ResIdle
  /\ UiIdle

Sanitize ==
  /\ sanOut = Unset
  /\ sanOut' = normalizeProjectRelativeAsset(sanRaw)
  /\ UNCHANGED <<sanRaw, sanAgain>>
  /\ UNCHANGED resVars
  /\ UNCHANGED uiVars

SanitizeAgain ==
  /\ sanOut \notin {Unset, Null}
  /\ sanAgain = Unset
  /\ sanAgain' = normalizeProjectRelativeAsset(sanOut)
  /\ UNCHANGED <<sanRaw, sanOut>>
  /\ UNCHANGED resVars
  /\ UNCHANGED uiVars

SanNext == Sanitize \/ SanitizeAgain

SpecSan == SanInit /\ [][SanNext]_vars

(***************************************************************************)
(* Embedded preview: documents, projects and the values derived in render  *)
(***************************************************************************)

\* source.replace(/^---\s*\n[\s\S]*?\n---\s*(?:\n|$)/, ""): the end of the
\* closing fence that starts at s[j] = "\n", or 0 when none ends there
FenceEnd(s, j) ==
  IF ~(j + 3 <= Len(s) /\ SubSeq(s, j, j + 3) = <<"\n", "-", "-", "-">>) THEN 0
  ELSE LET e == j + 3
           run == CHOOSE m \in 0..(Len(s) - e) :
                    /\ \A k \in 1..m : IsSpace(s[e + k])
                    /\ (e + m = Len(s) \/ ~IsSpace(s[e + m + 1]))
           newlines == {k \in 1..run : s[e + k] = "\n"}
       IN IF e + run = Len(s) THEN Len(s)
          ELSE IF newlines = {} THEN 0
          ELSE e + (CHOOSE k \in newlines : \A k2 \in newlines : k2 <= k)

\* the lazy body: the first closing fence at or after position from
FirstFenceEnd(s, from) ==
  LET hits == {j \in from..Len(s) : FenceEnd(s, j) # 0}
  IN IF hits = {} THEN 0
     ELSE FenceEnd(s, CHOOSE j \in hits : \A j2 \in hits : j <= j2)

stripFrontmatter(source) ==
  IF ~startsWith(source, <<"-", "-", "-">>) THEN source
  ELSE LET run == CHOOSE m \in 0..(Len(source) - 3) :
                    /\ \A k \in 1..m : IsSpace(source[3 + k])
                    /\ (3 + m = Len(source) \/ ~IsSpace(source[3 + m + 1]))
           \* greedy \s* then \n: the opening fence may end at any newline of the run
           opens == {k \in 1..run : source[3 + k] = "\n" /\ FirstFenceEnd(source, 3 + k + 1) # 0}
       IN IF opens = {} THEN source
          ELSE LET k == CHOOSE k1 \in opens : \A k2 \in opens : k2 <= k1
               IN slice(source, FirstFenceEnd(source, 3 + k + 1))

normalizeDeckSource(source) == trim(stripFrontmatter(source))

\* page.mdx texts: S opens a slide section, H is a heading <h2> T </h2>, b a
\* heading of blank text, I an <img src="a.png">, L an <a href="a.png">, p a
\* paragraph outside any slide, ! a construct the compiler rejects; FrontDoc
\* opens with a frontmatter block
FrontDoc == <<"-","-","-","\n","t","\n","-","-","-","\n","S","H","I","L","S","b">>

\* three slides: a heading, no heading, a blank heading
ThreeDoc == <<"S", "H", "S", "S", "b">>

\* a frontmatter block followed by white space only
BlankDoc == <<"-","-","-","\n","t","\n","-","-","-","\n"," ","\n">>

PageMdxTexts == { <<>>, <<"!">>, <<"p">>, <<"S">>, <<"S", "S">>, FrontDoc, ThreeDoc, BlankDoc }

\* what load_project can answer for a project: the document and the slide
\* count the backend reports for it
DetailsOf(path) ==
  IF path = <<"/", "A">>
    THEN { [page_mdx |-> <<"S", "S">>, slide_count |-> 1],
           [page_mdx |-> FrontDoc, slide_count |-> 3],
           [page_mdx |-> ThreeDoc, slide_count |-> 3],
           [page_mdx |-> <<"!">>, slide_count |-> 1] }
    ELSE { [page_mdx |-> <<"S">>, slide_count |-> 1],
           [page_mdx |-> <<"p">>, slide_count |-> 0],
           [page_mdx |-> BlankDoc, slide_count |-> 0] }

\* what get_app_state answers: the tracked projects, with their reported slide counts
AppStates ==
  { <<>>,
    << [path |-> <<"/", "A">>, slide_count |-> 3], [path |-> <<"/", "B">>, slide_count |-> 1] >> }

\* what resolve_project_asset_data_url answers the application
LoadedPayloads == { <<"d","a","t","a",":","1">> }

\* what read_project_css answers
CssTexts == { <<"c">> }

\* slides.css files read_project_css can answer with: a rule only, and a
\* :root block setting --slide-bg and a variable of the project, then a rule
SlidesCssTexts ==
  { <<".", "x", "{", "}">>,
    <<":","r","o","o","t","{","-","-","s","l","i","d","e","-","b","g",":","b",";",
      "-","-","y",":","c",";","}",".","x","{","}">> }

NormalizedSource == [t \in PageMdxTexts |-> normalizeDeckSource(t)]

\* evaluate(source) of @mdx-js/mdx throws on a malformed document
CompileFails(source) == \E i \in 1..Len(source) : source[i] = "!"

CompileMessage(source) == "Could not parse expression"

\* root.querySelectorAll(".slide").length for the rendered deck
RenderedSlides(deck) == Cardinality({i \in 1..Len(deck) : deck[i] = "S"})

DeckHasImage(deck) == \E i \in 1..Len(deck) : deck[i] = "I"

DeckHasLink(deck) == \E i \in 1..Len(deck) : deck[i] = "L"

\* the src attribute of the deck's <img>, the href of its <a>
DeckImageSrc == <<"a", ".", "p", "n", "g">>

DeckLinkHref == <<"a", ".", "p", "n", "g">>

EmptyPageMessage == "Project has an empty page.mdx."

Min(a, b) == IF a < b THEN a ELSE b

Max(a, b) == IF a > b THEN a ELSE b

\* the component state and refs, as one record (a render closure)
Cur ==
  [ projects |-> projects, selectedPath |-> selectedPath, storedPath |-> storedPath,
    detail |-> detail, presenterMode |-> presenterMode,
    activeSlideIndex |-> activeSlideIndex, embeddedSlideCount |-> embeddedSlideCount,
    slideOutline |-> slideOutline, expandedAsset |-> expandedAsset,
    projectCss |-> projectCss, compiledDeck |-> compiledDeck, error |-> error,
    resolvedSrc |-> resolvedSrc, scrollPos |-> scrollPos, rafQueue |-> rafQueue,
    slideDom |-> slideDom, slideTokens |-> slideTokens,
    pending |-> pending, cache |-> cache ]

NoProject == [path |-> <<>>, slide_count |-> 0]

\* const selectedProject = useMemo(() => projects.find(p => p.path === selectedPath) || null)
SelectedProject(S) ==
  IF S.selectedPath # <<>> /\ \E i \in 1..Len(S.projects) : S.projects[i].path = S.selectedPath
    THEN S.projects[CHOOSE i \in 1..Len(S.projects) :
           /\ S.projects[i].path = S.selectedPath
           /\ \A j \in 1..(i - 1) : S.projects[j].path # S.selectedPath]
    ELSE NoProject

HasProject(S) == SelectedProject(S) # NoProject

\* selectedProjectEmbeddedSource
EmbeddedSource(S) ==
  IF S.detail = NoDetail THEN <<>> ELSE NormalizedSource[S.detail.page_mdx]

\* visibleSlideCount
VisibleSlideCount(S) ==
  LET fallbackCount ==
        IF S.detail # NoDetail /\ S.detail.slide_count # 0 THEN S.detail.slide_count
        ELSE SelectedProject(S).slide_count
  IN IF S.embeddedSlideCount > 0 THEN S.embeddedSlideCount ELSE fallbackCount

\* maxSlideIndex
MaxSlideIndex(S) == Max(VisibleSlideCount(S) - 1, 0)

\* slideTocEntries, as the indexes offered by the rail
SlideTocEntries(S) ==
  IF Len(S.slideOutline) > 0 THEN S.slideOutline
  ELSE [i \in 1..VisibleSlideCount(S) |-> [index |-> i - 1, title |-> <<"Slide", i>>]]

\* SlideTocRail returns null for one entry or none
TocRailRendered(S) == HasProject(S) /\ Len(SlideTocEntries(S)) > 1

\* PreviewWorkspace renders PreviewModeDock with the preview stage
ModeDockRendered(S) == HasProject(S)

\* the deck <div> is in the DOM (previewRootRef.current is set)
DeckRendered(S) == HasProject(S) /\ S.error = "" /\ S.compiledDeck # Null

\* the .slide elements in the DOM
DomSlideCount(S) == IF DeckRendered(S) THEN RenderedSlides(S.compiledDeck) ELSE 0

SelPath(S) == SelectedProject(S).path

\* the <img> of the deck is mounted: ProjectAssetImage exists
ImageMounted(S) == DeckRendered(S) /\ DeckHasImage(S.compiledDeck)

\* the effect dependencies of ProjectAssetImage: [projectPath, props.src]
ImageKey(S) == IF ImageMounted(S) THEN <<SelPath(S), DeckImageSrc>> ELSE Null

\* nextOutline of the slide-count effect: the trimmed text of the slide's
\* first heading, or "Slide N" without a heading or with a blank one
NextOutline(deck) ==
  LET Start(i) == CHOOSE j \in 1..Len(deck) :
                    deck[j] = "S" /\ Cardinality({k \in 1..j : deck[k] = "S"}) = i
      End(i) == IF i = RenderedSlides(deck) THEN Len(deck) ELSE Start(i + 1) - 1
      Headings(i) == {j \in Start(i)..End(i) : deck[j] \in {"H", "b"}}
      textContent(i) ==
        IF deck[CHOOSE j \in Headings(i) : \A k \in Headings(i) : j <= k] = "H"
          THEN <<" ", "T", " ">> ELSE <<" ">>
      headingText(i) == IF Headings(i) = {} THEN <<>> ELSE trim(textContent(i))
  IN [i \in 1..RenderedSlides(deck) |->
        [index |-> i - 1,
         title |-> IF Len(headingText(i)) > 0 THEN headingText(i) ELSE <<"Slide", i>>]]

\* the scroll and resize listeners of the viewport effect are attached
Listening(S) == HasProject(S) /\ ~S.presenterMode

UpdateFrame == <<"update", 0>>

ScrollFrame(index) == <<"scroll", index>>

UpdatePending(S) == \E i \in 1..Len(S.rafQueue) : S.rafQueue[i] = UpdateFrame

\* mutant: every scroll and resize event requests a frame of its own
requestUpdate_Always(S) == [S EXCEPT !.rafQueue = Append(@, UpdateFrame)]

\* requestUpdate: at most one recomputation is scheduled at a time
requestUpdate(S) ==
  IF UpdatePending(S) THEN S ELSE [S EXCEPT !.rafQueue = Append(@, UpdateFrame)]

\* mutant: the cleanup leaves the requested recomputation in the queue
CancelUpdate_Keep(S) == S

\* window.cancelAnimationFrame(rafId) in the viewport effect's cleanup
CancelUpdate(S) ==
  [S EXCEPT !.rafQueue = SelectSeq(@, LAMBDA f : f # UpdateFrame)]

\* mutant: of several slides equally near, the last one is taken
getCurrentCenteredSlideIndex_LastOfTies(S) ==
  LET n == DomSlideCount(S)
      Distance(i) == IF 2 * i >= S.scrollPos THEN 2 * i - S.scrollPos ELSE S.scrollPos - 2 * i
  IN IF n = 0 THEN -1
     ELSE CHOOSE i \in 0..(n - 1) :
            \A j \in 0..(n - 1) :
              Distance(i) < Distance(j) \/ (Distance(i) = Distance(j) /\ i >= j)

\* mutant: the slide farthest down is taken for the centred one
getCurrentCenteredSlideIndex_Last(S) == DomSlideCount(S) - 1

\* getCurrentCenteredSlideIndex: slide i is centred at 2i, the viewport at scrollPos
getCurrentCenteredSlideIndex(S) ==
  LET n == DomSlideCount(S)
      Distance(i) == IF 2 * i >= S.scrollPos THEN 2 * i - S.scrollPos ELSE S.scrollPos - 2 * i
  IN IF n = 0 THEN -1
     ELSE CHOOSE i \in 0..(n - 1) :
            \A j \in 0..(n - 1) :
              Distance(i) < Distance(j) \/ (Distance(i) = Distance(j) /\ i <= j)

\* scrollListToSlide: centre the slide carrying data-slide-index = index, if any;
\* the scroll event it causes reaches requestUpdate when the listener is attached
scrollListToSlide(S, index) ==
  IF ~HasProject(S) \/ index >= DomSlideCount(S) THEN S
  ELSE LET moved == [S EXCEPT !.scrollPos = 2 * index]
       IN IF S.scrollPos # 2 * index /\ Listening(S) THEN requestUpdate(moved) ELSE moved

inferAssetKind(rawValue) ==
  LET EndsWith(s, t) == Len(s) >= Len(t) /\ SubSeq(s, Len(s) - Len(t) + 1, Len(s)) = t
      ImageExtensions == { <<".","p","n","g">>, <<".","g","i","f">>, <<".","s","v","g">> }
      VideoExtensions == { <<".","m","p","4">>, <<".","m","o","v">> }
      value == trim(rawValue)
      pathOnly == toLowerCase(PathOnly(value))
  IN IF value = <<>> THEN "none"
     ELSE IF \E e \in ImageExtensions : EndsWith(pathOnly, e) THEN "image"
     ELSE IF \E e \in VideoExtensions : EndsWith(pathOnly, e) THEN "video"
     ELSE "none"

\* an element's src property is its attribute resolved against the page URL
PageOrigin == <<"h","t","t","p",":","/","/","h","/">>

ElementSrc(attribute) ==
  IF isExternalAssetPath(attribute) THEN attribute ELSE PageOrigin \o attribute

(***************************************************************************)
(* Backend calls in flight and their cancellation flags                    *)
(***************************************************************************)

BootOp ==
  [kind |-> "get_app_state", caller |-> "Home",
   path |-> <<>>, src |-> <<>>, cacheKey |-> <<>>, cancelled |-> FALSE]

LoadProjectOp(path) ==
  [kind |-> "load_project", caller |-> "Home",
   path |-> path, src |-> <<>>, cacheKey |-> <<>>, cancelled |-> FALSE]

ReadProjectCssOp(path) ==
  [kind |-> "read_project_css", caller |-> "Home",
   path |-> path, src |-> <<>>, cacheKey |-> <<>>, cancelled |-> FALSE]

EvaluateOp(source) ==
  [kind |-> "evaluate", caller |-> "EmbeddedDeckPreview",
   path |-> <<>>, src |-> source, cacheKey |-> <<>>, cancelled |-> FALSE]

IsImageOp(op) == op.kind = "resolve_project_asset_data_url" /\ op.caller = "image"

IsLightboxOp(op) == op.kind = "resolve_project_asset_data_url" /\ op.caller = "lightbox"

IsEvaluateOp(op) == op.kind = "evaluate"

IsLoadProjectOp(op) == op.kind = "load_project"

IsReadProjectCssOp(op) == op.kind = "read_project_css"

\* an effect cleanup sets `cancelled = true` in the closures of its calls in
\* flight: the calls of that kind made by that component
CancelOps(bag, kind, caller) ==
  LET ops == BagToSet(bag)
      Match(op) == op.kind = kind /\ op.caller = caller
      Mark(op) == IF Match(op) THEN [op EXCEPT !.cancelled = TRUE] ELSE op
      Count(t) ==
        LET live == [t EXCEPT !.cancelled = FALSE]
        IN (IF t \in ops THEN bag[t] ELSE 0)
           + (IF t.cancelled /\ live \in ops /\ Match(live) THEN bag[live] ELSE 0)
  IN [t \in {Mark(op) : op \in ops} |-> Count(t)]

\* mutant: the settle callbacks do not look at their cancelled flag
Discarded_Never(op) == FALSE

\* `if (cancelled) return` / `if (!cancelled) ...` in the settle callbacks
Discarded(op) == op.cancelled

(***************************************************************************)
(* Effects, in React's order: children before parents, declaration order   *)
(* within a component.  P is the previous committed render, C the render   *)
(* being committed, N the state updates queued so far.                     *)
(***************************************************************************)

\* ProjectAssetImage effect, deps [projectPath, props.src]
ImageEffect(P, C, N) ==
  IF ImageKey(C) = ImageKey(P) THEN N
  ELSE LET cleaned == [N EXCEPT !.pending = CancelOps(@, "resolve_project_asset_data_url", "image")]
       IN IF ImageKey(C) = Null THEN [cleaned EXCEPT !.resolvedSrc = <<>>]
          ELSE LET begin == ResolveBegin(isTauri, N.cache, SelPath(C), DeckImageSrc)
               IN IF begin.kind = "return"
                    THEN [cleaned EXCEPT !.resolvedSrc = begin.value]
                    ELSE [cleaned EXCEPT
                            !.resolvedSrc = DeckImageSrc,
                            !.pending = Issue(@, ResolveOp("image", SelPath(C),
                                                           DeckImageSrc, begin.cacheKey))]

\* mutant: every source is handed to the compiler, the empty one too
CompileEffect_NoEmptyCheck(P, C, N) ==
  IF ~HasProject(C)
    THEN IF HasProject(P)
           THEN [N EXCEPT !.pending = CancelOps(@, "evaluate", "EmbeddedDeckPreview"),
                          !.compiledDeck = Null, !.error = ""]
           ELSE N
  ELSE IF HasProject(P) /\ EmbeddedSource(C) = EmbeddedSource(P) THEN N
  ELSE LET cleaned == [N EXCEPT !.pending = CancelOps(@, "evaluate", "EmbeddedDeckPreview")]
           source == EmbeddedSource(C)
       IN [cleaned EXCEPT !.error = "", !.compiledDeck = Null,
                          !.pending = Issue(@, EvaluateOp(source))]

\* mutant: a new compile keeps the deck of the previous one until it settles
CompileEffect_KeepDeck(P, C, N) ==
  IF ~HasProject(C)
    THEN IF HasProject(P)
           THEN [N EXCEPT !.pending = CancelOps(@, "evaluate", "EmbeddedDeckPreview"),
                          !.compiledDeck = Null, !.error = ""]
           ELSE N
  ELSE IF HasProject(P) /\ EmbeddedSource(C) = EmbeddedSource(P) THEN N
  ELSE LET cleaned == [N EXCEPT !.pending = CancelOps(@, "evaluate", "EmbeddedDeckPreview")]
           source == EmbeddedSource(C)
       IN IF trim(source) = <<>>
            THEN [cleaned EXCEPT !.error = EmptyPageMessage, !.compiledDeck = Null]
            ELSE [cleaned EXCEPT !.error = "",
                                 !.pending = Issue(@, EvaluateOp(source))]

\* EmbeddedDeckPreview compile effect, deps [source]
CompileEffect(P, C, N) ==
  IF ~HasProject(C)
    THEN IF HasProject(P)
           THEN [N EXCEPT !.pending = CancelOps(@, "evaluate", "EmbeddedDeckPreview"),
                          !.compiledDeck = Null, !.error = ""]
           ELSE N
  ELSE IF HasProject(P) /\ EmbeddedSource(C) = EmbeddedSource(P) THEN N
  ELSE LET cleaned == [N EXCEPT !.pending = CancelOps(@, "evaluate", "EmbeddedDeckPreview")]
           source == EmbeddedSource(C)
       IN IF trim(source) = <<>>
            THEN [cleaned EXCEPT !.error = EmptyPageMessage, !.compiledDeck = Null]
            ELSE [cleaned EXCEPT !.error = "", !.compiledDeck = Null,
                                 !.pending = Issue(@, EvaluateOp(source))]

\* EmbeddedDeckPreview slide-count effect, deps [CompiledDeck]
SlideCountEffect(P, C, N) ==
  IF ~HasProject(C) THEN [N EXCEPT !.slideDom = FreshDom(0)]
  ELSE IF HasProject(P) /\ C.compiledDeck = P.compiledDeck THEN N
  ELSE IF ~DeckRendered(C)
    THEN [N EXCEPT !.embeddedSlideCount = 0, !.slideOutline = <<>>,
                   !.slideDom = FreshDom(0)]
  ELSE [N EXCEPT !.embeddedSlideCount = RenderedSlides(C.compiledDeck),
                 !.slideOutline = NextOutline(C.compiledDeck),
                 !.slideDom = FreshDom(RenderedSlides(C.compiledDeck))]

\* EmbeddedDeckPreview visibility effect, deps [activeSlideIndex, presenterMode]:
\* it works on slideElementsRef as the slide-count effect of the same commit left it
VisibilityEffect(P, C, N) ==
  LET slides == N.slideDom.slides
      n == Len(slides)
      safeIndex == Min(C.activeSlideIndex, n - 1)
      previous == N.slideDom.previous
      wasSingleMode == N.slideDom.single
      stale == previous >= 0 /\ previous < n /\ previous # safeIndex
  IN IF ~HasProject(C) THEN N
     ELSE IF /\ HasProject(P)
             /\ C.activeSlideIndex = P.activeSlideIndex
             /\ C.presenterMode = P.presenterMode
       THEN N
     ELSE IF ~DeckRendered(C) \/ n = 0 THEN N
     ELSE [N EXCEPT !.slideDom =
       [slides |->
          [i \in 1..n |->
             [active |-> IF i - 1 = safeIndex THEN TRUE
                         ELSE IF stale /\ i - 1 = previous THEN FALSE
                         ELSE slides[i].active,
              hidden |-> IF ~C.presenterMode
                           THEN (IF wasSingleMode THEN FALSE ELSE slides[i].hidden)
                         ELSE IF i - 1 = safeIndex THEN FALSE
                         ELSE IF ~wasSingleMode THEN TRUE
                         ELSE IF stale /\ i - 1 = previous THEN TRUE
                         ELSE slides[i].hidden]],
        previous |-> safeIndex,
        single |-> C.presenterMode]]

\* Home "Sync selection" effect, deps [selectedPath]
SyncSelectionEffect(P, C, N) ==
  IF C.selectedPath = P.selectedPath \/ C.selectedPath = <<>> THEN N
  ELSE [N EXCEPT !.storedPath = C.selectedPath]

\* mutant: the reset effect leaves the mode and the index as they are
ResetEffect_KeepMode(P, C, N) ==
  IF SelPath(C) = SelPath(P) THEN N
  ELSE [N EXCEPT !.embeddedSlideCount = 0, !.slideOutline = <<>>]

\* Home reset effect, deps [selectedProject?.path]
ResetEffect(P, C, N) ==
  IF SelPath(C) = SelPath(P) THEN N
  ELSE [N EXCEPT !.activeSlideIndex = 0, !.embeddedSlideCount = 0,
                 !.slideOutline = <<>>, !.presenterMode = FALSE]

\* Home clamp effect, deps [maxSlideIndex]
ClampEffect(P, C, N) ==
  IF MaxSlideIndex(C) = MaxSlideIndex(P) THEN N
  ELSE [N EXCEPT !.activeSlideIndex = Min(@, MaxSlideIndex(C))]

\* Home load_project effect, deps [selectedProject?.path]
LoadProjectEffect(P, C, N) ==
  IF SelPath(C) = SelPath(P) THEN N
  ELSE LET cleaned == [N EXCEPT !.pending = CancelOps(@, "load_project", "Home")]
       IN IF ~HasProject(C) THEN [cleaned EXCEPT !.detail = NoDetail]
          ELSE [cleaned EXCEPT !.pending = Issue(@, LoadProjectOp(SelPath(C)))]

\* Home read_project_css effect, deps [selectedProject?.path]
ReadProjectCssEffect(P, C, N) ==
  IF SelPath(C) = SelPath(P) THEN N
  ELSE LET cleaned == [N EXCEPT !.pending = CancelOps(@, "read_project_css", "Home")]
       IN IF ~HasProject(C) THEN [cleaned EXCEPT !.projectCss = <<>>]
          ELSE [cleaned EXCEPT !.pending = Issue(@, ReadProjectCssOp(SelPath(C)))]

\* Home viewport effect, deps [embeddedSlideCount, presenterMode, selectedProject]
ViewportEffect(P, C, N) ==
  IF /\ C.embeddedSlideCount = P.embeddedSlideCount
     /\ C.presenterMode = P.presenterMode
     /\ SelectedProject(C) = SelectedProject(P)
    THEN N
  ELSE LET cleaned == IF Listening(P) THEN CancelUpdate(N) ELSE N
       IN IF Listening(C) THEN requestUpdate(cleaned) ELSE cleaned

\* the effects of Home's tree, in the order React runs them
Effects ==
  << "ProjectAssetImage", "compile", "slide-count", "visibility",
     "sync-selection", "reset", "clamp", "load_project", "read_project_css", "viewport" >>

RunEffect(name, P, C, N) ==
  CASE name = "ProjectAssetImage" -> ImageEffect(P, C, N)
    [] name = "compile" -> CompileEffect(P, C, N)
    [] name = "slide-count" -> SlideCountEffect(P, C, N)
    [] name = "visibility" -> VisibilityEffect(P, C, N)
    [] name = "sync-selection" -> SyncSelectionEffect(P, C, N)
    [] name = "reset" -> ResetEffect(P, C, N)
    [] name = "clamp" -> ClampEffect(P, C, N)
    [] name = "load_project" -> LoadProjectEffect(P, C, N)
    [] name = "read_project_css" -> ReadProjectCssEffect(P, C, N)
    [] name = "viewport" -> ViewportEffect(P, C, N)

\* the one element of a singleton set
Only(set) == CHOOSE x \in set : TRUE

\* one commit: every effect whose dependencies changed between P and C runs,
\* each on the updates queued by the effects before it
RECURSIVE RunEffectsFrom(_, _, _, _)
RunEffectsFrom(k, P, C, N) ==
  IF k > Len(Effects) THEN N
  ELSE Only({ RunEffectsFrom(k + 1, P, C, M) : M \in {RunEffect(Effects[k], P, C, N)} })

RunEffects(P, C) == RunEffectsFrom(1, P, C, C)

\* render and commit until no effect queues a further state update (a render
\* that changes nothing changes no dependency)
RECURSIVE Commit(_, _)
Commit(P, C) ==
  IF C = P THEN C
  ELSE Only({ IF N = C THEN C ELSE Commit(C, N) : N \in {RunEffects(P, C)} })

\* the browser keeps the scroll offset inside the content
ClampScroll(S) ==
  [S EXCEPT !.scrollPos = Min(@, Max(2 * (DomSlideCount(S) - 1), 0))]

\* the state is committed as it stands
Apply(S) ==
  /\ projects' = S.projects
  /\ selectedPath' = S.selectedPath
  /\ storedPath' = S.storedPath
  /\ detail' = S.detail
  /\ presenterMode' = S.presenterMode
  /\ activeSlideIndex' = S.activeSlideIndex
  /\ embeddedSlideCount' = S.embeddedSlideCount
  /\ slideOutline' = S.slideOutline
  /\ expandedAsset' = S.expandedAsset
  /\ projectCss' = S.projectCss
  /\ compiledDeck' = S.compiledDeck
  /\ error' = S.error
  /\ resolvedSrc' = S.resolvedSrc
  /\ scrollPos' = S.scrollPos
  /\ rafQueue' = S.rafQueue
  /\ slideDom' = S.slideDom
  /\ slideTokens' = S.slideTokens
  /\ pending' = S.pending
  /\ cache' = S.cache
  /\ UNCHANGED <<isTauri, lastResolve, resolved>>
  /\ UNCHANGED sanVars

\* the handler's state updates are rendered, the effects run to quiescence
Render(C) ==
  \E P \in {Cur} : \E C0 \in {C} : \E S \in {ClampScroll(Commit(P, C0))} : Apply(S)

(***************************************************************************)
(* The application: Home with EmbeddedDeckPreview, after the first mount   *)
(***************************************************************************)

\* mount: the restore effect copies the stored selection, boot() issues
\* get_app_state (call() throws at once outside Tauri, and boot() logs it)
Init ==
  /\ isTauri \in BOOLEAN
  /\ cache = <<>>
  /\ lastResolve = NoResolve
  /\ resolved = {}
  /\ SanIdle
  /\ storedPath \in {<<>>, ProjectPathB}
  /\ selectedPath = storedPath
  /\ pending = IF isTauri THEN SetToBag({BootOp}) ELSE EmptyBag
  /\ projects = <<>>
  /\ detail = NoDetail
  /\ presenterMode = FALSE
  /\ activeSlideIndex = 0
  /\ embeddedSlideCount = 0
  /\ slideOutline = <<>>
  /\ expandedAsset = NoAsset
  /\ projectCss = <<>>
  /\ compiledDeck = Null
  /\ error = ""
  /\ resolvedSrc = <<>>
  /\ scrollPos = 0
  /\ rafQueue = <<>>
  /\ slideDom = FreshDom(0)
  /\ slideTokens = DEFAULT_TOKENS

\* refreshState() of boot(): setAppState(nextState), setSelectedPath(first project or "")
BootRefreshSettles(op, nextState) ==
  /\ op \in BagToSet(pending)
  /\ op.kind = "get_app_state"
  /\ Render([Cur EXCEPT !.pending = Settle(@, op),
                        !.projects = nextState,
                        !.selectedPath = IF Len(nextState) > 0 THEN nextState[1].path ELSE <<>>])

\* get_app_state fails: boot() logs the message
BootRefreshFails(op) ==
  /\ op \in BagToSet(pending)
  /\ op.kind = "get_app_state"
  /\ Render([Cur EXCEPT !.pending = Settle(@, op)])

\* a click on a project of the sidebar: onSelectProject = setSelectedPath
SelectProject(path) ==
  /\ expandedAsset = NoAsset
  /\ \E i \in 1..Len(projects) : projects[i].path = path
  /\ path # selectedPath
  /\ InFlight(pending) < MaxPending
  /\ Render([Cur EXCEPT !.selectedPath = path])

\* load_project answers
LoadProjectSettles(op, nextDetail) ==
  /\ op \in BagToSet(pending)
  /\ op.kind = "load_project"
  /\ nextDetail \in DetailsOf(op.path)
  /\ LET settled == [Cur EXCEPT !.pending = Settle(@, op)]
     IN Render(IF Discarded(op) THEN settled ELSE [settled EXCEPT !.detail = nextDetail])

\* load_project fails
LoadProjectFails(op) ==
  /\ op \in BagToSet(pending)
  /\ op.kind = "load_project"
  /\ LET settled == [Cur EXCEPT !.pending = Settle(@, op)]
     IN Render(IF Discarded(op) THEN settled ELSE [settled EXCEPT !.detail = NoDetail])

\* read_project_css answers
ReadProjectCssSettles(op, css) ==
  /\ op \in BagToSet(pending)
  /\ op.kind = "read_project_css"
  /\ LET settled == [Cur EXCEPT !.pending = Settle(@, op)]
     IN Render(IF Discarded(op) THEN settled
               ELSE [settled EXCEPT !.projectCss = css, !.slideTokens = TokensOfCss(css)])

\* read_project_css fails
ReadProjectCssFails(op) ==
  /\ op \in BagToSet(pending)
  /\ op.kind = "read_project_css"
  /\ LET settled == [Cur EXCEPT !.pending = Settle(@, op)]
     IN Render(IF Discarded(op) THEN settled
               ELSE [settled EXCEPT !.projectCss = <<>>, !.slideTokens = DEFAULT_TOKENS])

\* what the text inputs of the settings panel hand to onUpdateToken
TokenInputs == { <<>>, <<"a">>, <<"a", " ">>, <<"a", ";", "b">> }

\* updateToken(key, value), from an input of the settings panel (rendered
\* with a project selected)
UpdateToken(key, value) ==
  /\ expandedAsset = NoAsset
  /\ HasProject(Cur)
  /\ key \in DOMAIN DEFAULT_TOKENS
  /\ value # slideTokens[key]
  /\ \E next \in {[slideTokens EXCEPT ![key] = value]} :
        Render([Cur EXCEPT !.slideTokens = next, !.projectCss = tokensToCss(next)])

SaveProjectCssOp(path, css) ==
  [kind |-> "save_project_css", caller |-> "Home",
   path |-> path, src |-> css, cacheKey |-> <<>>, cancelled |-> FALSE]

IsSaveProjectCssOp(op) == op.kind = "save_project_css"

\* handleSaveCss, from the save button (disabled while busy)
HandleSaveCss ==
  /\ expandedAsset = NoAsset
  /\ HasProject(Cur)
  /\ \A op \in BagToSet(pending) : ~IsSaveProjectCssOp(op)
  /\ Render([Cur EXCEPT !.pending =
               Issue(@, SaveProjectCssOp(SelPath(Cur), tokensToCss(slideTokens)))])

\* save_project_css answers: setProjectCss(css)
SaveCssSettles(op) ==
  /\ op \in BagToSet(pending)
  /\ IsSaveProjectCssOp(op)
  /\ Render([Cur EXCEPT !.pending = Settle(@, op), !.projectCss = op.src])

\* save_project_css fails: withBusy logs the message
SaveCssFails(op) ==
  /\ op \in BagToSet(pending)
  /\ IsSaveProjectCssOp(op)
  /\ Render([Cur EXCEPT !.pending = Settle(@, op)])

\* evaluate(source) settles: the module's default export, or the thrown message
CompileSettles(op) ==
  /\ op \in BagToSet(pending)
  /\ op.kind = "evaluate"
  /\ LET settled == [Cur EXCEPT !.pending = Settle(@, op)]
     IN Render(IF Discarded(op) THEN settled
               ELSE IF CompileFails(op.src)
                 THEN [settled EXCEPT !.error = CompileMessage(op.src)]
               ELSE [settled EXCEPT !.compiledDeck = op.src])

\* the asset a pending handleOpenAsset call holds: only anchors reach the
\* backend, and their kind is inferAssetKind(href)
AssetOf(op) == [kind |-> inferAssetKind(op.src), src |-> op.src]

\* resolve_project_asset_data_url answers a call made by the deck's image or
\* by handleOpenAsset: cache.set, then the caller's continuation
AssetLoadSucceeds(op, nextSource) ==
  /\ op \in BagToSet(pending)
  /\ IsImageOp(op) \/ IsLightboxOp(op)
  /\ LET settled == [Cur EXCEPT !.pending = Settle(@, op),
                                !.cache = CacheSet(@, op.cacheKey, nextSource)]
     IN Render(IF IsLightboxOp(op)
                 THEN [settled EXCEPT !.expandedAsset =
                         [AssetOf(op) EXCEPT !.src = IF nextSource # <<>> THEN nextSource ELSE op.src]]
               ELSE IF Discarded(op) THEN settled
               ELSE [settled EXCEPT !.resolvedSrc = nextSource])

\* resolve_project_asset_data_url fails: both callers catch the rejection
AssetLoadFails(op) ==
  /\ op \in BagToSet(pending)
  /\ IsImageOp(op) \/ IsLightboxOp(op)
  /\ LET settled == [Cur EXCEPT !.pending = Settle(@, op)]
     IN Render(IF IsLightboxOp(op)
                 THEN [settled EXCEPT !.expandedAsset = AssetOf(op)]
               ELSE IF Discarded(op) THEN settled
               ELSE [settled EXCEPT !.resolvedSrc = op.src])

\* handleOpenAsset(asset) up to its await
handleOpenAsset(S, asset) ==
  LET projectPath == SelPath(S)
      begin == ResolveBegin(isTauri, S.cache, projectPath, asset.src)
  IN IF begin.kind = "return"
       THEN [S EXCEPT !.expandedAsset =
               [asset EXCEPT !.src = IF begin.value # <<>> THEN begin.value ELSE asset.src]]
       ELSE [S EXCEPT !.pending =
               Issue(@, ResolveOp("lightbox", projectPath, asset.src, begin.cacheKey))]

\* a click on the deck's image
AssetClickImage ==
  /\ expandedAsset = NoAsset
  /\ ImageMounted(Cur)
  /\ InFlight(pending) < MaxPending
  /\ Render(handleOpenAsset(Cur,
       [kind |-> "image",
        src |-> ElementSrc(IF resolvedSrc # <<>> THEN resolvedSrc ELSE DeckImageSrc)]))

\* a click on the deck's link to an image or video file
AssetClickLink ==
  /\ expandedAsset = NoAsset
  /\ DeckRendered(Cur)
  /\ DeckHasLink(compiledDeck)
  /\ inferAssetKind(DeckLinkHref) # "none"
  /\ InFlight(pending) < MaxPending
  /\ Render(handleOpenAsset(Cur,
       [kind |-> inferAssetKind(DeckLinkHref), src |-> DeckLinkHref]))

\* the lightbox's overlay or close button is clicked
CloseLightbox ==
  /\ expandedAsset # NoAsset
  /\ Render([Cur EXCEPT !.expandedAsset = NoAsset])

\* a click on slide clickedIndex of the list: onActiveSlidePick
SlideClick(clickedIndex) ==
  /\ expandedAsset = NoAsset
  /\ DeckRendered(Cur)
  /\ ~presenterMode
  /\ clickedIndex \in 0..(DomSlideCount(Cur) - 1)
  /\ Render([Cur EXCEPT !.activeSlideIndex = clickedIndex])

\* handleTocSelect(index), from an entry of the rail (rendered for two entries or more)
TocSelect(index) ==
  /\ expandedAsset = NoAsset
  /\ HasProject(Cur)
  /\ Len(SlideTocEntries(Cur)) > 1
  /\ \E i \in 1..Len(SlideTocEntries(Cur)) : SlideTocEntries(Cur)[i].index = index
  /\ LET picked == [Cur EXCEPT !.activeSlideIndex = index]
     IN Render(IF presenterMode THEN picked ELSE scrollListToSlide(picked, index))

\* the user scrolls the preview surface: the scroll event reaches
\* requestUpdate when the viewport effect has its listeners attached
Scroll(position) ==
  /\ expandedAsset = NoAsset
  /\ HasProject(Cur)
  /\ position \in 0..(2 * (DomSlideCount(Cur) - 1))
  /\ position # scrollPos
  /\ \E moved \in {[Cur EXCEPT !.scrollPos = position]} :
        Render(IF Listening(Cur) THEN requestUpdate(moved) ELSE moved)

\* the window is resized
Resize ==
  /\ HasProject(Cur)
  /\ Render(IF Listening(Cur) THEN requestUpdate(Cur) ELSE Cur)

\* the callbacks of one animation frame, in the order they were requested
RunCallback(S, frame) ==
  IF frame = UpdateFrame
    THEN LET nextIndex == getCurrentCenteredSlideIndex(S)
         IN IF nextIndex >= 0
              THEN Commit(S, [S EXCEPT !.activeSlideIndex = nextIndex])
              ELSE S
    ELSE scrollListToSlide(S, frame[2])

RECURSIVE RunFrame(_, _)
RunFrame(S, frames) ==
  IF frames = <<>> THEN S
  ELSE Only({ RunFrame(T, Tail(frames)) : T \in {RunCallback(S, Head(frames))} })

AnimationFrame ==
  /\ rafQueue # <<>>
  /\ \E S \in {ClampScroll(RunFrame([Cur EXCEPT !.rafQueue = <<>>], rafQueue))} : Apply(S)

\* mutant: leaving presenter mode requests no scroll
exitPresenterMode_NoScroll(S) ==
  [S EXCEPT !.presenterMode = FALSE]

\* leaving presenter mode, by the dock or by Escape
exitPresenterMode(S) ==
  [S EXCEPT !.presenterMode = FALSE,
            !.rafQueue = Append(@, ScrollFrame(S.activeSlideIndex))]

\* mutant: entering presenter mode keeps the index it finds
TogglePresenterMode_KeepIndex ==
  /\ expandedAsset = NoAsset
  /\ HasProject(Cur)
  /\ presenterMode => Len(rafQueue) < MaxFrames
  /\ Render(IF presenterMode THEN exitPresenterMode(Cur)
            ELSE [Cur EXCEPT !.presenterMode = TRUE])

\* togglePresenterMode, from the dock (rendered with a project selected)
TogglePresenterMode ==
  /\ expandedAsset = NoAsset
  /\ HasProject(Cur)
  /\ presenterMode => Len(rafQueue) < MaxFrames
  /\ LET centeredSlide == getCurrentCenteredSlideIndex(Cur)
     IN Render(IF presenterMode THEN exitPresenterMode(Cur)
               ELSE [Cur EXCEPT
                       !.activeSlideIndex = IF centeredSlide >= 0 THEN centeredSlide ELSE @,
                       !.presenterMode = TRUE])

NextKeys == {"ArrowRight", "PageDown", " "}

PreviousKeys == {"ArrowLeft", "PageUp"}

Keys == {"Escape"} \cup NextKeys \cup PreviousKeys

\* the presses of NavNext: one key of each kind
NavKeys == {"Escape", "ArrowRight", "ArrowLeft"}

\* the press gets past the early returns of onKeyDown
KeyActs(key, isTypingTarget) ==
  /\ ~isTypingTarget
  /\ \/ key = "Escape" /\ (expandedAsset # NoAsset \/ presenterMode)
     \/ key # "Escape" /\ expandedAsset = NoAsset /\ presenterMode /\ HasProject(Cur)

\* mutant: the next key wraps from the last slide to the first
KeyDown_Wrap(key, isTypingTarget) ==
  /\ (KeyActs(key, isTypingTarget) /\ key = "Escape" /\ expandedAsset = NoAsset)
       => Len(rafQueue) < MaxFrames
  /\ Render(
       IF isTypingTarget THEN Cur
       ELSE IF key = "Escape" /\ expandedAsset # NoAsset THEN [Cur EXCEPT !.expandedAsset = NoAsset]
       ELSE IF key = "Escape" /\ presenterMode THEN exitPresenterMode(Cur)
       ELSE IF expandedAsset # NoAsset THEN Cur
       ELSE IF ~presenterMode \/ ~HasProject(Cur) THEN Cur
       ELSE IF key \in NextKeys
         THEN [Cur EXCEPT !.activeSlideIndex = IF @ >= MaxSlideIndex(Cur) THEN 0 ELSE @ + 1]
       ELSE IF key \in PreviousKeys
         THEN [Cur EXCEPT !.activeSlideIndex = Max(@ - 1, 0)]
       ELSE Cur)

\* onKeyDown, without the command shortcuts and the settings panel
KeyDown(key, isTypingTarget) ==
  /\ (KeyActs(key, isTypingTarget) /\ key = "Escape" /\ expandedAsset = NoAsset)
       => Len(rafQueue) < MaxFrames
  /\ Render(
       IF isTypingTarget THEN Cur
       ELSE IF key = "Escape" /\ expandedAsset # NoAsset THEN [Cur EXCEPT !.expandedAsset = NoAsset]
       ELSE IF key = "Escape" /\ presenterMode THEN exitPresenterMode(Cur)
       ELSE IF expandedAsset # NoAsset THEN Cur
       ELSE IF ~presenterMode \/ ~HasProject(Cur) THEN Cur
       ELSE IF key \in NextKeys
         THEN [Cur EXCEPT !.activeSlideIndex = Min(@ + 1, MaxSlideIndex(Cur))]
       ELSE IF key \in PreviousKeys
         THEN [Cur EXCEPT !.activeSlideIndex = Max(@ - 1, 0)]
       ELSE Cur)

Next ==
  \/ \E op \in BagToSet(pending), nextState \in AppStates : BootRefreshSettles(op, nextState)
  \/ \E op \in BagToSet(pending) : BootRefreshFails(op)
  \/ \E path \in {ProjectPathA, ProjectPathB} : SelectProject(path)
  \/ \E op \in BagToSet(pending) :
        \E nextDetail \in DetailsOf(op.path) : LoadProjectSettles(op, nextDetail)
  \/ \E op \in BagToSet(pending) : LoadProjectFails(op)
  \/ \E op \in BagToSet(pending), css \in CssTexts \cup SlidesCssTexts :
        ReadProjectCssSettles(op, css)
  \/ \E op \in BagToSet(pending) : ReadProjectCssFails(op)
  \/ \E key \in DOMAIN DEFAULT_TOKENS, value \in TokenInputs : UpdateToken(key, value)
  \/ HandleSaveCss
  \/ \E op \in BagToSet(pending) : SaveCssSettles(op)
  \/ \E op \in BagToSet(pending) : SaveCssFails(op)
  \/ \E op \in BagToSet(pending) : CompileSettles(op)
  \/ \E op \in BagToSet(pending), nextSource \in LoadedPayloads : AssetLoadSucceeds(op, nextSource)
  \/ \E op \in BagToSet(pending) : AssetLoadFails(op)
  \/ AssetClickImage
  \/ AssetClickLink
  \/ CloseLightbox
  \/ \E clickedIndex \in 0..MaxSlides : SlideClick(clickedIndex)
  \/ \E index \in 0..MaxSlides : TocSelect(index)
  \/ \E position \in 0..(2 * MaxSlides) : Scroll(position)
  \/ Resize
  \/ AnimationFrame
  \/ TogglePresenterMode
  \/ \E key \in Keys, isTypingTarget \in BOOLEAN : KeyDown(key, isTypingTarget)

Spec == Init /\ [][Next]_vars

\* the application with the settings panel: the stylesheet is read, tokens
\* are edited and saved, projects are switched
CssNext ==
  \/ \E op \in BagToSet(pending), nextState \in AppStates : BootRefreshSettles(op, nextState)
  \/ \E path \in {ProjectPathA, ProjectPathB} : SelectProject(path)
  \/ \E op \in BagToSet(pending), css \in SlidesCssTexts : ReadProjectCssSettles(op, css)
  \/ \E op \in BagToSet(pending) : ReadProjectCssFails(op)
  \/ \E key \in DOMAIN DEFAULT_TOKENS, value \in TokenInputs : UpdateToken(key, value)
  \/ HandleSaveCss
  \/ \E op \in BagToSet(pending) : SaveCssSettles(op)
  \/ \E op \in BagToSet(pending) : SaveCssFails(op)

SpecCss == Init /\ [][CssNext]_vars

\* the application with the user selecting projects and opening assets only:
\* every backend call and every way it can settle (the documents are those of
\* at most two slides that render a deck, fail to compile or are empty)
AsyncNext ==
  \/ \E op \in BagToSet(pending), nextState \in AppStates : BootRefreshSettles(op, nextState)
  \/ \E op \in BagToSet(pending) : BootRefreshFails(op)
  \/ \E path \in {ProjectPathA, ProjectPathB} : SelectProject(path)
  \/ \E op \in BagToSet(pending) :
        \E nextDetail \in {d \in DetailsOf(op.path) : d.page_mdx \notin {ThreeDoc, <<"p">>}} :
          LoadProjectSettles(op, nextDetail)
  \/ \E op \in BagToSet(pending) : LoadProjectFails(op)
  \/ \E op \in BagToSet(pending), css \in CssTexts : ReadProjectCssSettles(op, css)
  \/ \E op \in BagToSet(pending) : ReadProjectCssFails(op)
  \/ \E op \in BagToSet(pending) : CompileSettles(op)
  \/ \E op \in BagToSet(pending), nextSource \in LoadedPayloads : AssetLoadSucceeds(op, nextSource)
  \/ \E op \in BagToSet(pending) : AssetLoadFails(op)
  \/ AssetClickImage
  \/ AssetClickLink
  \/ CloseLightbox

SpecAsync == Init /\ [][AsyncNext]_vars

\* the documents of NavNext: those with text and without assets
NavDetails(path) ==
  {d \in DetailsOf(path) :
     LET deck == NormalizedSource[d.page_mdx]
     IN ~DeckHasImage(deck) /\ ~DeckHasLink(deck) /\ d.page_mdx # BlankDoc}

\* the application with the user navigating the slides, toggling the mode and
\* switching projects; load_project and the compiles answer, the stylesheet
\* calls stay in flight
NavNext ==
  \/ \E op \in BagToSet(pending), nextState \in AppStates : BootRefreshSettles(op, nextState)
  \/ \E path \in {ProjectPathA, ProjectPathB} : SelectProject(path)
  \/ \E op \in BagToSet(pending) :
        \E nextDetail \in NavDetails(op.path) : LoadProjectSettles(op, nextDetail)
  \/ \E op \in BagToSet(pending) : CompileSettles(op)
  \/ \E clickedIndex \in 0..MaxSlides : SlideClick(clickedIndex)
  \/ \E index \in 0..MaxSlides : TocSelect(index)
  \/ \E position \in 0..(2 * MaxSlides) : Scroll(position)
  \/ Resize
  \/ AnimationFrame
  \/ TogglePresenterMode
  \/ \E key \in NavKeys : KeyActs(key, FALSE) /\ KeyDown(key, FALSE)

SpecNav == Init /\ [][NavNext]_vars

\* the application with the keyboard: every key the handler knows, on a typing
\* target or not, in either mode, with and without a lightbox
KeyNext ==
  \/ \E op \in BagToSet(pending), nextState \in AppStates : BootRefreshSettles(op, nextState)
  \/ \E op \in BagToSet(pending), css \in CssTexts : ReadProjectCssSettles(op, css)
  \/ \E op \in BagToSet(pending) :
        \E nextDetail \in {d \in DetailsOf(op.path) : d.page_mdx # BlankDoc} :
          LoadProjectSettles(op, nextDetail)
  \/ \E op \in BagToSet(pending) : CompileSettles(op)
  \/ \E op \in BagToSet(pending), nextSource \in LoadedPayloads : AssetLoadSucceeds(op, nextSource)
  \/ AssetClickLink
  \/ \E index \in 0..MaxSlides : TocSelect(index)
  \/ AnimationFrame
  \/ TogglePresenterMode
  \/ \E key \in Keys, isTypingTarget \in BOOLEAN : KeyDown(key, isTypingTarget)

SpecKeys == Init /\ [][KeyNext]_vars

\* the application with projects opened and nothing else done: the backend
\* calls settle, the animation frames run
LoadNext ==
  \/ \E op \in BagToSet(pending), nextState \in AppStates : BootRefreshSettles(op, nextState)
  \/ \E path \in {ProjectPathA, ProjectPathB} : SelectProject(path)
  \/ \E op \in BagToSet(pending) : BootRefreshFails(op)
  \/ \E op \in BagToSet(pending) :
        \E nextDetail \in {d \in DetailsOf(op.path) : d.page_mdx # BlankDoc} :
          LoadProjectSettles(op, nextDetail)
  \/ \E op \in BagToSet(pending) : LoadProjectFails(op)
  \/ \E op \in BagToSet(pending), css \in CssTexts : ReadProjectCssSettles(op, css)
  \/ \E op \in BagToSet(pending) : ReadProjectCssFails(op)
  \/ \E op \in BagToSet(pending) : CompileSettles(op)
  \/ \E op \in BagToSet(pending), nextSource \in LoadedPayloads : AssetLoadSucceeds(op, nextSource)
  \/ \E op \in BagToSet(pending) : AssetLoadFails(op)
  \/ AnimationFrame

SpecLoad == Init /\ [][LoadNext]_vars


(***************************************************************************)
(* Claims about the sanitizer (checked under SpecSan)                      *)
(***************************************************************************)

\* the segments the sanitizer's loop scans for a raw reference
ScannedParts(raw) ==
  LET relative0 == RelativeOf(raw)
  IN split(IF startsWith(relative0, <<"/">>) THEN slice(relative0, 1) ELSE relative0)

IsDotDot(part) == part = <<".", ".">>

IsPlainPart(part) == part \notin { <<>>, <<".">>, <<".", ".">> }

\* some prefix of the segments holds more ".." than retained segments
EscapesRoot(parts) ==
  \E i \in 1..Len(parts) :
    Cardinality({j \in 1..i : IsDotDot(parts[j])}) >
      Cardinality({j \in 1..i : IsPlainPart(parts[j])})

\* C1: the sanitizer returns null whenever a ".." segment is met while no
\* segment is retained, and every non-null result has no leading "/" and no
\* segment equal to "..", "." or the empty string.
C1_TraversalRejected ==
  sanOut # Unset =>
    /\ EscapesRoot(ScannedParts(sanRaw)) => sanOut = Null
    /\ sanOut # Null =>
         /\ ~startsWith(sanOut, <<"/">>)
         /\ \A k \in 1..Len(split(sanOut)) : IsPlainPart(split(sanOut)[k])

\* C1 witness: a reference that retains a segment, pops it and then escapes
\* (a/../..) has been sanitized to null.
C1_Witness ==
  /\ sanOut = Null
  /\ Len(ScannedParts(sanRaw)) = 3
  /\ IsPlainPart(ScannedParts(sanRaw)[1])
  /\ IsDotDot(ScannedParts(sanRaw)[2])
  /\ IsDotDot(ScannedParts(sanRaw)[3])
  /\ ~isExternalAssetPath(trim(sanRaw))
  /\ ~startsWith(RelativeOf(sanRaw), <<"/">>)

\* C2: sanitizer idempotence: for every accepted input p,
\* sanitize(sanitize(p)) equals sanitize(p).
C2_Idempotent ==
  sanAgain # Unset => sanAgain = sanOut

AssetRoots ==
  { <<"/","a","s","s","e","t","s">>, <<"/","i","m","a","g","e","s">>,
    <<"/","m","e","d","i","a">>, <<"/","d","a","t","a">> }

\* C3: an input whose path part begins with "/" is accepted only if the path
\* equals or begins with /assets, /images, /media or /data; an accepted one
\* is returned project-relative, the leading slash dropped.
C3_AbsoluteOnlyUnderRoots ==
  (sanOut # Unset /\ startsWith(RelativeOf(sanRaw), <<"/">>) /\ sanOut # Null) =>
    /\ \E root \in AssetRoots : startsWith(RelativeOf(sanRaw), root)
    /\ ~startsWith(sanOut, <<"/">>)
    /\ (\A k \in 1..Len(ScannedParts(sanRaw)) : IsPlainPart(ScannedParts(sanRaw)[k]))
         => sanOut = slice(RelativeOf(sanRaw), 1)

\* C3 witness: /images/a (or /data/a) has been accepted as images/a.
C3_Witness ==
  /\ sanOut \notin {Unset, Null}
  /\ startsWith(RelativeOf(sanRaw), <<"/">>)
  /\ Len(split(sanOut)) = 2
  /\ sanOut = slice(RelativeOf(sanRaw), 1)

(***************************************************************************)
(* Claims about the resolver (checked under SpecResolve)                   *)
(***************************************************************************)

SchemePrefixes ==
  { <<"h","t","t","p",":","/","/">>, <<"h","t","t","p","s",":","/","/">>,
    <<"d","a","t","a",":">>, <<"b","l","o","b",":">>,
    <<"m","a","i","l","t","o",":">>, <<"t","e","l",":">> }

\* empty or whitespace-only, fragment-only, scheme-prefixed in any letter
\* case, or protocol-relative
PassThroughRaw(raw) ==
  LET t == trim(raw)
  IN \/ t = <<>>
     \/ t[1] = "#"
     \/ (Len(t) >= 2 /\ t[1] = "/" /\ t[2] = "/")
     \/ \E scheme \in SchemePrefixes :
          /\ Len(t) >= Len(scheme)
          /\ toLowerCase(SubSeq(t, 1, Len(scheme))) = scheme

\* the step is the synchronous part of a resolveProjectAssetSource call
IsResolveCallStep == lastResolve'.kind \in {"return", "await"}

\* C4: for a raw reference that is empty, whitespace-only, fragment-only,
\* scheme-prefixed or protocol-relative, and whenever the project path is
\* empty or the runtime is not Tauri, resolveProjectAssetSource returns the
\* raw string unchanged, issues no backend load and leaves the cache unchanged.
C4_PassThrough ==
  [][ (/\ IsResolveCallStep
       /\ \/ PassThroughRaw(lastResolve'.rawSrc)
          \/ lastResolve'.projectPath = <<>>
          \/ ~isTauri)
      => /\ lastResolve'.kind = "return"
         /\ lastResolve'.value = lastResolve'.rawSrc
         /\ pending' = pending
         /\ cache' = cache ]_vars

\* C4 witness: with a project path, the Tauri runtime and a populated cache,
\* a scheme-prefixed reference has been returned as it was given.
C4_Witness ==
  /\ lastResolve.kind = "return"
  /\ PassThroughRaw(lastResolve.rawSrc)
  /\ trim(lastResolve.rawSrc) # <<>>
  /\ lastResolve.value = lastResolve.rawSrc
  /\ lastResolve.projectPath # <<>>
  /\ isTauri
  /\ DOMAIN cache # {}

\* C5: cache reuse: once a call for a (project path, sanitized relative path)
\* pair has completed successfully, every later call for the same pair
\* returns the cached payload and issues no backend load.
C5_CacheReuse ==
  [][ (/\ IsResolveCallStep
       /\ <<lastResolve'.projectPath,
             normalizeProjectRelativeAsset(lastResolve'.rawSrc)>> \in resolved)
      => /\ lastResolve'.kind = "return"
         /\ pending' = pending
         /\ lastResolve'.value \in BackendPayloads
         /\ lastResolve'.value =
              CacheGet(cache, CacheKey(lastResolve'.projectPath,
                         normalizeProjectRelativeAsset(lastResolve'.rawSrc))) ]_vars

\* C5 witness: a call for an already loaded pair has returned a payload
\* while another load was still in flight.
C5_Witness ==
  /\ lastResolve.kind = "return"
  /\ <<lastResolve.projectPath,
        normalizeProjectRelativeAsset(lastResolve.rawSrc)>> \in resolved
  /\ lastResolve.value \in BackendPayloads
  /\ InFlight(pending) > 0

\* C6 as claimed: when the backend load of a project-relative asset fails,
\* the promise of resolveProjectAssetSource does not reject; it resolves to
\* the original raw string.
C6_FailureResolvesRaw ==
  [][ \A op \in BagToSet(pending) :
        HarnessLoadFails(op)
          => /\ lastResolve'.kind = "resolve"
             /\ lastResolve'.value = op.src ]_vars

\* C6 amended: when the backend load of a project-relative asset fails, the
\* promise of resolveProjectAssetSource rejects to its caller for that
\* reference, and the cache is left as it was.
C6_FailureRejects ==
  [][ \A op \in BagToSet(pending) :
        HarnessLoadFails(op)
          => /\ lastResolve'.kind = "reject"
             /\ lastResolve'.projectPath = op.path
             /\ lastResolve'.rawSrc = op.src
             /\ cache' = cache ]_vars

\* C6 witness: a call for a project-relative reference has been rejected
\* while the sanitizer accepts the reference.
C6_Witness ==
  /\ lastResolve.kind = "reject"
  /\ normalizeProjectRelativeAsset(lastResolve.rawSrc) # Null
  /\ lastResolve.projectPath # <<>>
  /\ isTauri

(***************************************************************************)
(* Claims about the backend calls of the application (checked under        *)
(* SpecAsync)                                                              *)
(***************************************************************************)

\* the key a call was issued under is no longer the key of its effect
KeyChanged(op) ==
  \/ IsEvaluateOp(op) /\ (~HasProject(Cur) \/ op.src # EmbeddedSource(Cur))
  \/ (IsLoadProjectOp(op) \/ IsReadProjectCssOp(op)) /\ op.path # SelPath(Cur)
  \/ IsImageOp(op) /\ ImageKey(Cur) # <<op.path, op.src>>

\* the step is a success or a failure of the call op arriving
IsSettleStep(op) ==
  \/ CompileSettles(op)
  \/ \E nextDetail \in DetailsOf(op.path) : LoadProjectSettles(op, nextDetail)
  \/ LoadProjectFails(op)
  \/ \E css \in CssTexts : ReadProjectCssSettles(op, css)
  \/ ReadProjectCssFails(op)
  \/ /\ IsImageOp(op)
     /\ \/ \E nextSource \in LoadedPayloads : AssetLoadSucceeds(op, nextSource)
        \/ AssetLoadFails(op)

\* the deck and the error shown are those of the current source
RenderedIsCurrent ==
  /\ compiledDeck # Null
       => HasProject(Cur) /\ compiledDeck = EmbeddedSource(Cur) /\ error = ""
  /\ error = CompileMessage(EmbeddedSource(Cur))
       => HasProject(Cur) /\ CompileFails(EmbeddedSource(Cur))
  /\ error = EmptyPageMessage
       => HasProject(Cur) /\ trim(EmbeddedSource(Cur)) = <<>>

\* C7: a success or failure of compile (keyed on the source), load_project,
\* read_project_css (keyed on the selected project path) or the image resolve
\* (keyed on project path and src) that arrives after its key has changed
\* leaves the component state as it is, and the deck and error shown are
\* always those of the current source: compile(A) settling after compile(B)
\* does not replace B's result.
C7_StaleDiscard ==
  /\ []RenderedIsCurrent
  /\ [][ \A op \in BagToSet(pending) :
           (KeyChanged(op) /\ IsSettleStep(op)) => UNCHANGED uiVars ]_vars

\* C7 witness: compile(A) was issued, then compile(B); B has settled and its
\* deck is rendered while A's compile is still to arrive.
C7_Witness ==
  /\ compiledDeck # Null
  /\ compiledDeck = EmbeddedSource(Cur)
  /\ \E op \in BagToSet(pending) :
        IsEvaluateOp(op) /\ op.src # compiledDeck /\ ~CompileFails(op.src)

\* the step is the resolve of the handleOpenAsset call op settling
IsOpenSettleStep(op) ==
  /\ IsLightboxOp(op)
  /\ \/ \E nextSource \in LoadedPayloads : AssetLoadSucceeds(op, nextSource)
     \/ AssetLoadFails(op)

\* C8: only the last-issued asset-open request applies; taken at the case the
\* state decides without history: a handleOpenAsset call whose resolve
\* settles after the selected project changed does not set expandedAsset.
C8_StaleOpenDiscarded ==
  [][ \A op \in BagToSet(pending) :
        (IsOpenSettleStep(op) /\ op.path # SelPath(Cur))
          => expandedAsset' = expandedAsset ]_vars

(***************************************************************************)
(* Claims about the active slide (checked under SpecNav)                   *)
(***************************************************************************)

IsRecompileStep(op, n) ==
  /\ IsEvaluateOp(op)
  /\ ~op.cancelled
  /\ ~CompileFails(op.src)
  /\ n = RenderedSlides(op.src)
  /\ embeddedSlideCount # n
  /\ CompileSettles(op)

ClampOnCountChange ==
  [][ \A op \in BagToSet(pending) : \A n \in 1..MaxSlides :
        (/\ IsRecompileStep(op, n)
         /\ VisibleSlideCount(Cur) # n
         /\ activeSlideIndex > n - 1)
          => activeSlideIndex' = n - 1 ]_vars

(***************************************************************************)
(* Claims about project switches and the two modes (checked under SpecNav) *)
(***************************************************************************)

\* the step changes the path of the selected project
IsSwitchStep == SelPath(Cur)' # SelPath(Cur)

\* C11: whenever the selected project path changes, the state reached once
\* the effects of the change have run has presenterMode false,
\* activeSlideIndex 0 and an empty slideOutline, whatever they were before.
C11_SwitchResets ==
  [][ IsSwitchStep
        => (presenterMode' = FALSE /\ activeSlideIndex' = 0 /\ slideOutline' = <<>>) ]_vars

\* C11 witness: project B has just been selected over project A, whose deck
\* (two slides, so an outline of two entries) is still the one rendered; the
\* outline is empty and the index 0.
C11_Witness ==
  /\ SelPath(Cur) = ProjectPathB
  /\ compiledDeck = <<"S", "S">>
  /\ detail # NoDetail /\ detail.page_mdx = <<"S", "S">>
  /\ slideOutline = <<>>
  /\ activeSlideIndex = 0
  /\ ~presenterMode

\* the decks a project's documents compile to
DecksOf(path) ==
  { NormalizedSource[d.page_mdx] : d \in {e \in DetailsOf(path) : ~CompileFails(e.page_mdx)} }

\* C12: a selection change tears down the compiled deck: the deck rendered
\* while a project is selected is never the deck compiled from another
\* project's document.
C12_DeckOfSelectedProject ==
  DeckRendered(Cur) => compiledDeck \in DecksOf(SelPath(Cur))

\* slide k is in the DOM and its centre is nearer the centre of the viewport
\* than that of any other slide
CentredOn(k) ==
  LET Distance(i) == IF 2 * i >= scrollPos THEN 2 * i - scrollPos ELSE scrollPos - 2 * i
  IN /\ k < DomSlideCount(Cur)
     /\ \A j \in 0..(DomSlideCount(Cur) - 1) : j # k => Distance(k) < Distance(j)

\* the step is the dock's toggle pressed in list mode
IsEnterPresenterStep == ~presenterMode /\ TogglePresenterMode

\* C13: entering presenter mode from the list while the viewport is centred
\* on slide k sets presenterMode and makes k the active slide, whatever the
\* active slide was before; with no slide rendered the index is unchanged.
C13_EnterCapturesCentred ==
  [][ IsEnterPresenterStep
        => /\ presenterMode'
           /\ \A k \in 0..(MaxSlides - 1) : CentredOn(k) => activeSlideIndex' = k
           /\ DomSlideCount(Cur) = 0 => activeSlideIndex' = activeSlideIndex ]_vars

\* C13 witness: presenter mode with the second slide of a two-slide deck
\* active and the list still scrolled to that slide, no frame pending.
C13_Witness ==
  /\ presenterMode
  /\ DomSlideCount(Cur) = 2
  /\ scrollPos = 2
  /\ activeSlideIndex = 1
  /\ rafQueue = <<>>

\* the scroll-to-index requests for slide k waiting for the next animation frame
ScrollRequests(queue, k) == Cardinality({i \in 1..Len(queue) : queue[i] = ScrollFrame(k)})

\* the step leaves presenter mode, by the dock's toggle or by Escape
IsExitPresenterStep ==
  /\ presenterMode
  /\ expandedAsset = NoAsset
  /\ TogglePresenterMode \/ KeyDown("Escape", FALSE)

\* the step is the animation frame that runs the scroll-to-index for slide k,
\* the last one requested, in the list view with slide k in the DOM
IsExitScrollStep(k) ==
  /\ ~presenterMode
  /\ k < DomSlideCount(Cur)
  /\ \E i \in 1..Len(rafQueue) :
        /\ rafQueue[i] = ScrollFrame(k)
        /\ \A j \in (i + 1)..Len(rafQueue) : rafQueue[j] = UpdateFrame
  /\ AnimationFrame

\* C14: leaving presenter mode with activeSlideIndex = k sets list mode and
\* requests exactly one scroll-to-index, for k; once that scroll and the
\* viewport recomputation of its frame have run, the list is centred on slide
\* k and activeSlideIndex is k.
C14_ExitRecentres ==
  /\ [][ IsExitPresenterStep
           => /\ ~presenterMode'
              /\ \A k \in 0..MaxSlides :
                   ScrollRequests(rafQueue', k)
                     = ScrollRequests(rafQueue, k) + (IF k = activeSlideIndex THEN 1 ELSE 0) ]_vars
  /\ [][ \A k \in 0..(MaxSlides - 1) :
           IsExitScrollStep(k)
             => /\ scrollPos' = 2 * k
                /\ CentredOn(k)'
                /\ activeSlideIndex' = k ]_vars

\* C14 witness: presenter mode has just been left with the second slide
\* active while the list is scrolled to the first: the scroll-to-index for
\* slide 1 and the recomputation wait for the next frame.
C14_Witness ==
  /\ ~presenterMode
  /\ rafQueue = <<ScrollFrame(1), UpdateFrame>>
  /\ DomSlideCount(Cur) = 2
  /\ scrollPos = 0

\* the step is a pick in the table of contents
IsTocStep == \E index \in 0..MaxSlides : TocSelect(index)

\* the step is a next or previous key pressed
IsKeyNavStep == \E key \in NextKeys \cup PreviousKeys : KeyDown(key, FALSE)

\* the step is a click on a slide
IsSlideClickStep == \E clickedIndex \in 0..MaxSlides : SlideClick(clickedIndex)

\* the step changes maxSlideIndex and the clamp effect lowers the index to it
IsClampStep ==
  /\ MaxSlideIndex(Cur)' # MaxSlideIndex(Cur)
  /\ activeSlideIndex' = Min(activeSlideIndex, MaxSlideIndex(Cur)')

\* the step is a scroll of the surface, a resize or an animation frame
IsViewportStep ==
  \/ \E position \in 0..(2 * MaxSlides) : Scroll(position)
  \/ Resize
  \/ AnimationFrame

\* C15: in presenter mode a scroll, a resize or an animation frame (whatever
\* was requested before the mode was entered) leaves activeSlideIndex as it
\* is; the index changes only by a table-of-contents pick, a slide click, a
\* next or previous key, the slide-count clamp or the project-switch reset.
C15_PresenterIndexAuthoritative ==
  /\ [][ (presenterMode /\ IsViewportStep) => activeSlideIndex' = activeSlideIndex ]_vars
  /\ [][ (presenterMode /\ activeSlideIndex' # activeSlideIndex)
           => (IsTocStep \/ IsKeyNavStep \/ IsSlideClickStep \/ IsClampStep \/ IsSwitchStep) ]_vars

\* C15 witness: presenter mode with the first slide active while the surface
\* is scrolled to the second, nothing waiting for a frame.
C15_Witness ==
  /\ presenterMode
  /\ DomSlideCount(Cur) = 2
  /\ activeSlideIndex = 0
  /\ scrollPos = 2
  /\ rafQueue = <<>>

(***************************************************************************)
(* Claims about the keyboard (checked under SpecKeys)                      *)
(***************************************************************************)

\* the keys act: presenter mode, a project selected, no lightbox open
KeysNavigate == presenterMode /\ HasProject(Cur) /\ expandedAsset = NoAsset

\* C16: in presenter mode a next key (ArrowRight, PageDown, Space) sets
\* activeSlideIndex to min(i + 1, maxSlideIndex) and a previous key
\* (ArrowLeft, PageUp) to max(i - 1, 0), without wraparound; these keys change
\* nothing in list mode, with no project selected, with a lightbox open or on
\* a typing target.
C16_KeyboardNavigation ==
  [][ \A key \in NextKeys \cup PreviousKeys : \A isTypingTarget \in BOOLEAN :
        KeyDown(key, isTypingTarget)
          => IF KeysNavigate /\ ~isTypingTarget
               THEN /\ key \in NextKeys
                       => activeSlideIndex' = Min(activeSlideIndex + 1, MaxSlideIndex(Cur))
                    /\ key \in PreviousKeys
                       => activeSlideIndex' = Max(activeSlideIndex - 1, 0)
                    /\ (key \in NextKeys /\ activeSlideIndex = MaxSlideIndex(Cur))
                       => activeSlideIndex' = activeSlideIndex
                    /\ (key \in PreviousKeys /\ activeSlideIndex = 0)
                       => activeSlideIndex' = 0
               ELSE UNCHANGED uiVars ]_vars

\* C16 witness: presenter mode on the last slide of a deck of two or more
\* slides, where a next key must not wrap, with no lightbox open.
C16_Witness ==
  /\ KeysNavigate
  /\ DomSlideCount(Cur) >= 2
  /\ activeSlideIndex = MaxSlideIndex(Cur)
  /\ activeSlideIndex > 0

(***************************************************************************)
(* Claims about the rendered slides (checked under SpecNav)                *)
(***************************************************************************)

\* C17: while the rendered deck has zero slides, activeSlideIndex is 0 (no
\* table-of-contents, keyboard or toggle action moves it) and neither the
\* table-of-contents rail nor the mode dock is rendered.
C17_ZeroSlidesHidden ==
  (DeckRendered(Cur) /\ DomSlideCount(Cur) = 0)
    => (activeSlideIndex = 0 /\ ~TocRailRendered(Cur) /\ ~ModeDockRendered(Cur))

\* the slides of the DOM that are visible (aria-hidden = "false"), and those
\* marked active (data-active = "true"), by index
VisibleSlides == {i \in 0..(Len(slideDom.slides) - 1) : ~slideDom.slides[i + 1].hidden}

ActiveSlides == {i \in 0..(Len(slideDom.slides) - 1) : slideDom.slides[i + 1].active}

\* C18: in presenter mode with a deck of n >= 1 slides rendered, exactly one
\* slide is visible and marked active: slide min(activeSlideIndex, n - 1),
\* whatever the order of mode toggle, compile completion and navigation.
C18_OneSlideVisible ==
  (presenterMode /\ DomSlideCount(Cur) >= 1)
    => /\ VisibleSlides = {Min(activeSlideIndex, DomSlideCount(Cur) - 1)}
       /\ ActiveSlides = {Min(activeSlideIndex, DomSlideCount(Cur) - 1)}

\* the same when presenter mode was entered with the deck already rendered:
\* the slides are those the last run of the visibility effect arranged
OneSlideVisibleOnceArranged ==
  (presenterMode /\ DomSlideCount(Cur) >= 1 /\ slideDom.single)
    => /\ VisibleSlides = {Min(activeSlideIndex, DomSlideCount(Cur) - 1)}
       /\ ActiveSlides = {Min(activeSlideIndex, DomSlideCount(Cur) - 1)}

\* the outline the claim describes for a deck: one entry per slide, by index,
\* titled by the heading text "T" where the slide has one that is not blank
OutlineMatches(outline, deck) ==
  /\ Len(outline) = RenderedSlides(deck)
  /\ \A i \in 1..Len(outline) :
        /\ outline[i].index = i - 1
        /\ outline[i].title \in {<<"T">>, <<"Slide", i>>}
        /\ outline[i].title = NextOutline(deck)[i].title

\* C19: whenever a compiled deck with n slides is rendered, slideOutline has
\* n entries, entry i carries index i and the trimmed text of the first
\* heading of slide i, or "Slide i+1" without a heading or with a blank one,
\* after any sequence of project switches and compiles.
C19_OutlineMatchesDeck ==
  DeckRendered(Cur) => OutlineMatches(slideOutline, compiledDeck)

\* the outline matches the deck whenever the slide-count effect was the last
\* to write it: in every state where the rendered count is reported
OutlineMatchesWhenCounted ==
  (DeckRendered(Cur) /\ embeddedSlideCount > 0) => OutlineMatches(slideOutline, compiledDeck)

(***************************************************************************)
(* Claims about opening a project (checked under SpecLoad)                 *)
(***************************************************************************)

\* C20: once a project whose document has 3 slides is opened, loaded,
\* compiled and rendered (the rendered count of 3 has been reported since the
\* project was opened), with no user interaction, the outline has 3 entries,
\* the mode is List and activeSlideIndex is 0.
C20_OpenThreeSlides ==
  (DeckRendered(Cur) /\ RenderedSlides(compiledDeck) = 3 /\ embeddedSlideCount = 3)
    => (Len(slideOutline) = 3 /\ ~presenterMode /\ activeSlideIndex = 0)

\* C20 witness: the three-slide deck is rendered with its outline, every call
\* has settled and the viewport recomputation has run.
C20_Witness ==
  /\ DeckRendered(Cur)
  /\ RenderedSlides(compiledDeck) = 3
  /\ Len(slideOutline) = 3
  /\ pending = EmptyBag
  /\ rafQueue = <<>>

(***************************************************************************)
(* Claims about compile failures and empty documents (checked under        *)
(* SpecAsync)                                                              *)
(***************************************************************************)

\* the step is evaluate(op.src) throwing in a compile that was not cancelled
IsCompileFailureStep(op) ==
  IsEvaluateOp(op) /\ ~Discarded(op) /\ CompileFails(op.src) /\ CompileSettles(op)

\* C21: after a compile failure that is not stale no compiled deck is
\* rendered (CompiledDeck is null: neither a partial nor the previous deck),
\* the slide count reported to Home is 0, slideOutline is empty and the error
\* state is the failure's message.
C21_CompileFailureClears ==
  [][ \A op \in BagToSet(pending) :
        IsCompileFailureStep(op)
          => /\ compiledDeck' = Null
             /\ ~DeckRendered(Cur)'
             /\ embeddedSlideCount' = 0
             /\ slideOutline' = <<>>
             /\ error' = CompileMessage(op.src) ]_vars

\* C21 witness: the selected project's document has failed to compile, the
\* message is shown and no compile is in flight.
C21_Witness ==
  /\ HasProject(Cur)
  /\ detail # NoDetail
  /\ CompileFails(EmbeddedSource(Cur))
  /\ error = CompileMessage(EmbeddedSource(Cur))
  /\ \A op \in BagToSet(pending) : ~IsEvaluateOp(op)

\* the selected project's document has been loaded and is empty or white
\* space only once its frontmatter is stripped
LoadedDocumentIsBlank ==
  HasProject(Cur) /\ detail # NoDetail /\ trim(stripFrontmatter(detail.page_mdx)) = <<>>

\* C22: while the deck source is empty or white space only after frontmatter
\* stripping, no compile of it is in flight (the compiler is never handed an
\* empty source), the compiled deck is null and the error state is the
\* empty-document message.
C22_EmptySourceNotCompiled ==
  /\ \A op \in BagToSet(pending) : IsEvaluateOp(op) => trim(op.src) # <<>>
  /\ (HasProject(Cur) /\ trim(EmbeddedSource(Cur)) = <<>>)
       => /\ compiledDeck = Null
          /\ error = EmptyPageMessage
          /\ \A op \in BagToSet(pending) : IsEvaluateOp(op) => op.cancelled

\* C22 witness: a document of frontmatter and white space has been loaded for
\* the selected project and every call has settled.
C22_Witness ==
  /\ LoadedDocumentIsBlank
  /\ detail.page_mdx # <<>>
  /\ \A op \in BagToSet(pending) : ~IsLoadProjectOp(op) /\ ~IsEvaluateOp(op)

\* EmbeddedDeckPreview shows the empty-document message in place of the deck
EmptyPageShown == HasProject(Cur) /\ error = EmptyPageMessage

\* C28: the empty-document error is displayed only when the selected
\* project's loaded document is empty or white space only after frontmatter
\* stripping: not while the document is still being loaded, nor after the
\* load_project call has failed.
C28_EmptyErrorOnlyForLoadedBlank ==
  EmptyPageShown => LoadedDocumentIsBlank

(***************************************************************************)
(* Claims about the viewport recomputation (checked under SpecNav)         *)
(***************************************************************************)

\* slide k is as near the viewport centre as any slide, and every slide
\* before it in the document is farther
NearestFirst(k) ==
  LET Distance(i) == IF 2 * i >= scrollPos THEN 2 * i - scrollPos ELSE scrollPos - 2 * i
  IN /\ k < DomSlideCount(Cur)
     /\ \A j \in 0..(DomSlideCount(Cur) - 1) :
          /\ Distance(k) <= Distance(j)
          /\ j < k => Distance(k) < Distance(j)

\* the step is an animation frame that runs the requested recomputation
IsRecomputeStep == UpdatePending(Cur) /\ AnimationFrame

\* C24: in list mode every viewport recomputation leaves activeSlideIndex at
\* the slide whose centre is nearest the viewport centre, the first in
\* document order when several are equally near; with no slide rendered the
\* index is left unchanged.
C24_RecomputeNearestFirst ==
  [][ IsRecomputeStep
        => /\ \A k \in 0..(MaxSlides - 1) : NearestFirst(k)' => activeSlideIndex' = k
           /\ DomSlideCount(Cur)' = 0 => activeSlideIndex' = activeSlideIndex ]_vars

\* C24 witness: a three-slide list scrolled half way between the second and
\* the third slide, the recomputation done, the second slide active.
C24_Witness ==
  /\ ~presenterMode
  /\ DomSlideCount(Cur) = 3
  /\ scrollPos = 3
  /\ activeSlideIndex = 1
  /\ rafQueue = <<>>

\* the recomputation callbacks waiting for the next animation frame
UpdateRequests(queue) == Cardinality({i \in 1..Len(queue) : queue[i] = UpdateFrame})

\* the step is a scroll of the preview surface or a resize of the window
IsScrollOrResizeStep ==
  \/ \E position \in 0..(2 * MaxSlides) : Scroll(position)
  \/ Resize

\* C25: at every moment at most one recomputation callback is waiting for
\* the animation frame; a scroll or resize event that arrives while one is
\* waiting requests no further one (the one that runs reads the geometry of
\* its frame: C24); and a recomputation is waiting only while the viewport
\* effect is attached (list mode, a project selected): tearing the effect
\* down cancels it.
C25_ViewportSyncCoalesced ==
  /\ [](UpdateRequests(rafQueue) <= 1)
  /\ [][ (IsScrollOrResizeStep /\ UpdatePending(Cur)) => rafQueue' = rafQueue ]_vars
  /\ [](UpdatePending(Cur) => Listening(Cur))
  /\ [][ (Listening(Cur) /\ ~Listening(Cur)') => UpdateRequests(rafQueue') = 0 ]_vars

\* C25 witness: one recomputation is waiting in list mode while the list has
\* been scrolled away from the active slide (the scroll events are coalesced
\* into it).
C25_Witness ==
  /\ Listening(Cur)
  /\ DomSlideCount(Cur) >= 2
  /\ UpdateRequests(rafQueue) = 1
  /\ scrollPos # 2 * activeSlideIndex

(***************************************************************************)
(* Claims about the asset cache (checked under SpecResolve)                *)
(***************************************************************************)

\* C26: once a payload is stored in the asset cache under a key, no later
\* operation changes or removes it, under every interleaving of resolve
\* calls, two loads in flight for the same key included.
C26_CacheEntriesImmutable ==
  [][ \A k \in DOMAIN cache : k \in DOMAIN cache' /\ cache'[k] = cache[k] ]_vars

\* the step is a load of key k completing with a payload other than the one
\* stored under k, which it replaces
IsLateLoadStep(k) ==
  \E op \in BagToSet(pending), nextSource \in BackendPayloads :
    /\ op.cacheKey = k
    /\ nextSource # cache[k]
    /\ HarnessLoadSucceeds(op, nextSource)
    /\ cache'[k] = nextSource

\* C26 as amended: an entry of the asset cache is never removed, and it
\* changes only when a load of the same key that had missed the cache
\* completes with a different payload, which replaces it; a load completing
\* with the payload already stored leaves the cache as it is.
C26_CacheEntriesKept ==
  [][ \A k \in DOMAIN cache :
        /\ k \in DOMAIN cache'
        /\ cache'[k] # cache[k] => IsLateLoadStep(k) ]_vars

\* C26 witness: a payload is stored under a key while another load of the
\* same key, issued before the first one completed, is still in flight.
C26_Witness ==
  \E op \in BagToSet(pending) :
    /\ op.cacheKey \in DOMAIN cache
    /\ cache[op.cacheKey] \in BackendPayloads

(***************************************************************************)
(* Claims about root-relative references (checked under SpecSan)           *)
(***************************************************************************)

\* C27: for every input whose path part begins with "/", a non-null result
\* of the sanitizer has assets, images, media or data for its first segment:
\* an accepted root-relative reference does not normalize, through ".."
\* segments, to a path outside the recognized asset folders.
C27_RootRelativeStaysUnderRoot ==
  (sanOut \notin {Unset, Null} /\ startsWith(RelativeOf(sanRaw), <<"/">>))
    => \E root \in AssetRoots : split(sanOut)[1] = slice(root, 1)

(***************************************************************************)
(* Claims about startup (checked under SpecLoad)                           *)
(***************************************************************************)

\* the step is boot's get_app_state answering with the project list nextState
IsBootRefreshStep(nextState) ==
  \E op \in BagToSet(pending) : BootRefreshSettles(op, nextState)

\* C29: on startup, when the selected-project path persisted in local
\* storage is one of the projects get_app_state returns, the selected path
\* is that persisted path once the restore effect and the boot refresh have
\* both completed.
C29_PersistedSelectionRestored ==
  [][ \A nextState \in AppStates :
        ( /\ IsBootRefreshStep(nextState)
          /\ \E i \in 1..Len(nextState) : nextState[i].path = storedPath )
          => selectedPath' = storedPath ]_vars

(***************************************************************************)
(* Claims about the slide tokens and the project stylesheet (checked       *)
(* under SpecCss)                                                          *)
(***************************************************************************)

\* the step is updateToken called by an input of the settings panel
IsUpdateTokenStep ==
  \E key \in DOMAIN DEFAULT_TOKENS, value \in TokenInputs : UpdateToken(key, value)

\* C23: token CSS round trip: for every token set the settings inputs can
\* produce, parsing the CSS it is serialized to gives the same value for
\* every token (the CSS is the one updateToken stores as projectCss).
C23_TokenCssRoundTrip ==
  [][ IsUpdateTokenStep
        => /\ projectCss' = tokensToCss(slideTokens')
           /\ parseCssToTokens(projectCss') = slideTokens' ]_vars

\* the text frag occurs in css
Contains(css, frag) ==
  \E i \in 1..(Len(css) - Len(frag) + 1) : SubSeq(css, i, i + Len(frag) - 1) = frag

\* what the slides.css files of the model hold besides the mapped token
\* variables: a rule, and a declaration of a variable of the project
OtherCss == { <<".", "x", "{", "}">>, <<"-", "-", "y", ":", "c", ";">> }

\* C30: saving the project CSS preserves content: the CSS handleSaveCss
\* hands to save_project_css holds every rule and declaration of the loaded
\* slides.css (projectCss as read_project_css left it) that is not one of the
\* mapped token variables.
C30_SaveKeepsOtherCss ==
  [][ HandleSaveCss
        => \A op \in BagToSet(pending') :
             IsSaveProjectCssOp(op)
               => \A frag \in OtherCss : Contains(projectCss, frag) => Contains(op.src, frag) ]_vars

====
